---- MODULE Spec2Model ----
(***************************************************************************)
(* Verification model of the overlay plugin: bundle (BEEF) ancestry        *)
(* validation, payload validation and topic admission, discovery parsing,  *)
(* overlay submission, key derivation and the wallet import command.       *)
(*                                                                         *)
(* Each subsystem has its own specification (SpecBeef, SpecImport, ...)    *)
(* over one set of variables; a specification keeps the variables of the   *)
(* other subsystems at their idle values.                                  *)
(***************************************************************************)
EXTENDS Integers, Sequences, FiniteSets, TLC

VARIABLES
    beef,        \* SpecBeef: the bundle being assembled, a sequence of BeefTx
    ancestry,    \* SpecBeef: result of the last validateBeefAncestry, or NoResult
    script,      \* SpecPayload: the locking script under test
    defects,     \* SpecPayload: how many fields of the payload were changed
    parsed,      \* SpecPayload: what the parsers answered for script, or NoResult
    bundle,      \* SpecAdmit: the bundle handed to a topic manager
    admitted,    \* SpecAdmit: the topic and its AdmittanceResult, or NoResult
    discovery,   \* SpecDiscover: the answers and the output of cmdDiscover, or NoResult
    registration,      \* SpecSubmit: the saved registration, or Null
    savedServices,     \* SpecSubmit: the local service registry, a sequence
    txCount,           \* SpecSubmit: transactions created by the wallet so far
    submitted,         \* SpecSubmit: what the last command posted and got back
    report,            \* SpecSubmit: what the last command printed, or NoResult
    rootKey,           \* SpecKeys: the wallet's root key, 0 before it exists
    derived,           \* SpecKeys: the keys and addresses derived from rootKey
    importPc,          \* SpecImport: the await cmdImport is at, "idle" or "done"
    importArgs,        \* SpecImport: txid and vout of the command
    elapsed,           \* SpecImport: Date.now() - startTime
    attempt,           \* SpecImport: the retry counter of the polling loop
    answers,           \* SpecImport: the statuses the indexer answered, in order
    slept,             \* SpecImport: the delays of the backoff sleeps, in order
    pollOutcome,       \* SpecImport: how the polling loop ended, "none" before
    txInfo,            \* SpecImport: the transaction info, or Null
    atomicBeef,        \* SpecImport: atomicBeefBytes and where it came from, or Null
    handed,            \* SpecImport: the bundles handed to internalizeAction
    imported,          \* SpecImport: the wallet took the output
    importResult,      \* SpecImport: what the command printed, or NoResult
    buffer,            \* SpecDecode: the buffer handed to validateBeef, or Null
    decoded,           \* SpecDecode: the result of validateBeef, or NoResult
    fromBinaryCalls,   \* SpecDecode: calls of Beef.fromBinary by the last validateBeef
    serviceQueue,      \* SpecQueue: the entries of the queue file, oldest first
    relayOutbox,       \* SpecQueue: the request ids of the responses sent, in order
    processed,         \* SpecQueue: the last call of processMessage and its result, or NoResult
    responded,         \* SpecQueue: the last call of cmdRespondService and its data, or NoResult
    queueReport,       \* SpecQueue: what cmdServiceQueue returned last, or NoResult
    queueOps,          \* SpecQueue: calls made so far
    queueFile,         \* SpecRace: the lines of the queue file, oldest first
    appended,          \* SpecRace: the request ids the background service has queued
    updaters,          \* SpecRace: the respond-service commands: where each is, and what it read
    payment,           \* SpecPay: the payment of the request: a payment, Null, or NoResult before it came
    payVerdict,      \* SpecPay: the price asked and the result of verifyAndAcceptPayment, or NoResult
    storeFile,         \* SpecStore: the lines of the service queue file
    storeReport,       \* SpecStore: the last cleanup or status update of the file
    registryMap,       \* SpecRegistry: the services map of the registry, by id
    registryReport     \* SpecRegistry: the last operation on the registry and its error

beefVars == <<beef, ancestry>>

payloadVars == <<script, defects, parsed>>

admitVars == <<bundle, admitted>>

discoverVars == <<discovery>>

submitVars ==
    <<registration, savedServices, txCount, submitted, report>>

keyVars == <<rootKey, derived>>

importVars ==
    <<importPc, importArgs, elapsed, attempt, answers, slept, pollOutcome, txInfo,
      atomicBeef, handed, imported, importResult>>

decodeVars ==
    <<buffer, decoded, fromBinaryCalls>>

queueVars ==
    <<serviceQueue, relayOutbox, processed, responded, queueReport, queueOps>>

raceVars ==
    <<queueFile, appended, updaters>>

payVars ==
    <<payment, payVerdict>>

storeVars ==
    <<storeFile, storeReport>>

registryVars ==
    <<registryMap, registryReport>>

vars ==
    <<beefVars, payloadVars, admitVars, discoverVars, submitVars, keyVars,
      importVars, decodeVars, queueVars, raceVars, payVars, storeVars,
      registryVars>>

\* What the actions of one subsystem leave unchanged.
NotBeef ==
    <<payloadVars, admitVars, discoverVars, submitVars, keyVars,
      importVars, decodeVars, queueVars, raceVars, payVars, storeVars,
      registryVars>>

NotPayload ==
    <<beefVars, admitVars, discoverVars, submitVars, keyVars, importVars,
      decodeVars, queueVars, raceVars, payVars, storeVars, registryVars>>

NotAdmit ==
    <<beefVars, payloadVars, discoverVars, submitVars, keyVars, importVars,
      decodeVars, queueVars, raceVars, payVars, storeVars, registryVars>>

NotDiscover ==
    <<beefVars, payloadVars, admitVars, submitVars, keyVars, importVars,
      decodeVars, queueVars, raceVars, payVars, storeVars, registryVars>>

NotSubmit ==
    <<beefVars, payloadVars, admitVars, discoverVars, keyVars, importVars,
      decodeVars, queueVars, raceVars, payVars, storeVars, registryVars>>

NotKeys ==
    <<beefVars, payloadVars, admitVars, discoverVars, submitVars,
      importVars, decodeVars, queueVars, raceVars, payVars, storeVars,
      registryVars>>

NotImport ==
    <<beefVars, payloadVars, admitVars, discoverVars, submitVars, keyVars,
      decodeVars, queueVars, raceVars, payVars, storeVars, registryVars>>

NotDecode ==
    <<beefVars, payloadVars, admitVars, discoverVars, submitVars, keyVars,
      importVars, queueVars, raceVars, payVars, storeVars, registryVars>>

NotQueue ==
    <<beefVars, payloadVars, admitVars, discoverVars, submitVars, keyVars,
      importVars, decodeVars, raceVars, payVars, storeVars, registryVars>>

NotRace ==
    <<beefVars, payloadVars, admitVars, discoverVars, submitVars, keyVars,
      importVars, decodeVars, queueVars, payVars, storeVars, registryVars>>

NotPay ==
    <<beefVars, payloadVars, admitVars, discoverVars, submitVars, keyVars,
      importVars, decodeVars, queueVars, raceVars, storeVars, registryVars>>

NotStore ==
    <<beefVars, payloadVars, admitVars, discoverVars, submitVars, keyVars,
      importVars, decodeVars, queueVars, raceVars, payVars, registryVars>>

NotRegistry ==
    <<beefVars, payloadVars, admitVars, discoverVars, submitVars, keyVars,
      importVars, decodeVars, queueVars, raceVars, payVars, storeVars>>

NoResult == [none |-> TRUE]

----------------------------------------------------------------------------
(* Bundles.  A transaction id is a number 1..MaxTxs; 0 is a transaction    *)
(* that is in no bundle.  A transaction id is the hash of its content, so  *)
(* a transaction can only spend transactions that existed before it:       *)
(* transaction i spends ids below i.                                       *)

MaxTxs == 3

TxIds == 1..MaxTxs

\* One entry of Beef.txs: a raw transaction with or without a merkle proof
\* (bump), or a txid-only entry.
\* outputs holds the locking scripts of the transaction's outputs; ancestry
\* does not look at them.
BeefTxs ==
    [txid : TxIds, inputs : SUBSET (0..MaxTxs), hasProof : BOOLEAN, txidOnly : BOOLEAN,
     outputs : {<<>>}]

WellFormedTx(t) ==
    /\ \A i \in t.inputs : i < t.txid
    /\ t.txidOnly => (t.inputs = {} /\ ~t.hasProof)

\* BeefTx.inputTxids: the source txids that still need resolving; a proven
\* transaction needs none.
inputTxids(t) == IF t.hasProof \/ t.txidOnly THEN {} ELSE t.inputs

TxidsOf(txs) == {txs[i].txid : i \in 1..Len(txs)}

\* Beef.sortTxs: the txids known to be valid, grown from the proven
\* transactions by repeatedly adding transactions whose inputs are all known.
RECURSIVE validTxids(_, _)
validTxids(txs, known) ==
    LET more == {txs[i].txid : i \in {j \in 1..Len(txs) :
                      /\ ~txs[j].txidOnly
                      /\ txs[j].txid \notin known
                      /\ (txs[j].hasProof \/ txs[j].inputs \subseteq known)}}
    IN IF more = {} THEN known ELSE validTxids(txs, known \cup more)

\* Beef.isValid(allowTxidOnly): every entry is a full transaction that is
\* proven or has all its inputs among the valid ones.
isValid(txs, allowTxidOnly) ==
    /\ allowTxidOnly \/ \A i \in 1..Len(txs) : ~txs[i].txidOnly
    /\ LET known == validTxids(txs,
                        IF allowTxidOnly
                        THEN {txs[i].txid : i \in {j \in 1..Len(txs) : txs[j].txidOnly}}
                        ELSE {})
       IN \A i \in 1..Len(txs) : txs[i].txid \in known

\* validateBeefAncestry without the test of isValid: a faulty variant the
\* ancestry property must tell apart from the real one.
validateBeefAncestryUnchecked(b) ==
    IF ~b.parses
    THEN [valid |-> FALSE, error |-> "parse error", chain |-> <<>>]
    ELSE [valid |-> TRUE, error |-> "",
          chain |-> [i \in 1..Len(b.txs) |-> b.txs[i].txid]]

\* validateBeefAncestry(beef): b.parses = FALSE is a buffer on which
\* Beef.fromBinary throws.
validateBeefAncestry(b) ==
    IF ~b.parses
    THEN [valid |-> FALSE, error |-> "parse error", chain |-> <<>>]
    ELSE LET chain == [i \in 1..Len(b.txs) |-> b.txs[i].txid]
         IN IF ~isValid(b.txs, FALSE)
            THEN [valid |-> FALSE, error |-> "BEEF ancestry chain is invalid",
                  chain |-> chain]
            ELSE [valid |-> TRUE, error |-> "", chain |-> chain]

----------------------------------------------------------------------------
(* JSON values and token scripts.  A JSON value is its type and, for a     *)
(* string, its text.  A locking script is its shape and its fields; the    *)
(* first field of a token is a JSON document.                              *)

PROTOCOL_ID == "clawdbot-overlay-v1"

\* PROTOCOL_ID of the CLI configuration, the tag the commands put in payloads.
CONFIG_PROTOCOL_ID == "clawdbot overlay v1"

JStr(s) == [t |-> "string", s |-> s]

JNum == [t |-> "number", s |-> ""]

JArr == [t |-> "array", s |-> ""]

JObj == [t |-> "object", s |-> ""]

JNull == [t |-> "null", s |-> ""]

JUndef == [t |-> "undefined", s |-> ""]

\* The length of the sample strings: "key66", "KEY66" and "nonhex66" stand
\* for 66-character strings, "abc123" for a 6-character one.
StrLen(s) ==
    CASE s = "" -> 0
      [] s \in {"key66", "KEY66", "nonhex66"} -> 66
      [] s = "abc123" -> 6
      [] OTHER -> 15

\* Every character of the string is one of 0-9, a-f, A-F.
IsHexStr(s) == s \in {"", "key66", "KEY66", "abc123"}

\* typeof v === 'string'
IsString(v) == v.t = "string"

\* /^[0-9a-fA-F]{66}$/.test(s)
TestKey(s) == StrLen(s) = 66 /\ IsHexStr(s)

\* !v : undefined, null and the empty string are falsy (a JNum stands for a
\* number; an object or array is truthy).
Falsy(v) == v.t \in {"undefined", "null"} \/ (v.t = "string" /\ v.s = "")

FieldNames ==
    {"protocol", "type", "identityKey", "name", "description", "channels",
     "capabilities", "timestamp", "serviceId", "pricing", "amountSats", "model"}

\* The values a field of a payload document takes in the model.  amountSats
\* and model are the members of pricing, read only when pricing is an object.
FieldValues(f) ==
    CASE f = "protocol" -> {JStr(PROTOCOL_ID), JStr(CONFIG_PROTOCOL_ID), JStr("wrong"), JUndef}
      [] f = "type" -> {JStr("identity"), JStr("identity-revocation"), JStr("service"),
                        JStr("other"), JUndef}
      [] f = "identityKey" -> {JStr("key66"), JStr("KEY66"), JStr("abc123"),
                               JStr("not-a-valid-key"), JStr("nonhex66"), JNum, JUndef}
      [] f = "name" -> {JStr("agent"), JStr(""), JNum, JUndef}
      [] f = "description" -> {JStr("desc"), JStr(""), JUndef}
      [] f = "channels" -> {JObj, JUndef}
      [] f = "capabilities" -> {JArr, JStr("services"), JUndef}
      [] f = "timestamp" -> {JStr("2026-01-01"), JStr(""), JNum, JUndef}
      [] f = "serviceId" -> {JStr("svc"), JStr(""), JNum, JUndef}
      [] f = "pricing" -> {JObj, JStr("free"), JNum, JNull, JUndef}
      [] f = "amountSats" -> {JNum, JStr("25"), JUndef}
      [] f = "model" -> {JStr("per-task"), JStr(""), JUndef}

\* The document JSON.parse returns for a well-formed Identity payload.
IdentityDoc ==
    [json |-> "object", protocol |-> JStr(PROTOCOL_ID), type |-> JStr("identity"),
     identityKey |-> JStr("key66"), name |-> JStr("agent"), description |-> JStr("desc"),
     channels |-> JObj, capabilities |-> JArr, timestamp |-> JStr("2026-01-01"),
     serviceId |-> JUndef, pricing |-> JUndef, amountSats |-> JUndef, model |-> JUndef]

RevocationDoc ==
    [IdentityDoc EXCEPT !.type = JStr("identity-revocation"), !.name = JUndef,
                        !.description = JUndef, !.channels = JUndef,
                        !.capabilities = JUndef]

ServiceDoc ==
    [IdentityDoc EXCEPT !.type = JStr("service"), !.channels = JUndef,
                        !.capabilities = JUndef, !.serviceId = JStr("svc"),
                        !.pricing = JObj, !.amountSats = JNum,
                        !.model = JStr("per-task")]

\* What JSON.parse does on a first field that is not an object: it throws
\* ("throws"), or returns null ("null") or a number, string or boolean
\* ("scalar").
NonObjectDoc(kind) ==
    [json |-> kind, protocol |-> JUndef, type |-> JUndef, identityKey |-> JUndef,
     name |-> JUndef, description |-> JUndef, channels |-> JUndef,
     capabilities |-> JUndef, timestamp |-> JUndef, serviceId |-> JUndef,
     pricing |-> JUndef, amountSats |-> JUndef, model |-> JUndef]

\* The token script PushDrop.lock builds around the fields.
PushDropScript(fields) == [shape |-> "pushdrop", fields |-> fields]

\* A script PushDrop.decode throws on: pay-to-public-key-hash, or the legacy
\* OP_FALSE OP_RETURN data carrier (its first chunk carries no data).
OtherScript(shape) == [shape |-> shape, fields |-> <<>>]

Null == [null |-> TRUE]

\* extractPushDropFields
extractPushDropFields(s) == IF s.shape = "pushdrop" THEN [fields |-> s.fields] ELSE Null

\* parseIdentityOutput without the comparison of the protocol tag: a faulty
\* variant.
parseIdentityOutputNoTag(s) ==
    LET r == extractPushDropFields(s)
    IN IF r = Null \/ Len(r.fields) < 1 THEN Null
       ELSE LET payload == r.fields[1]
            IN IF payload.json \in {"throws", "null"} THEN Null
               ELSE IF payload.type # JStr("identity") THEN Null
               ELSE IF ~IsString(payload.identityKey) \/ ~TestKey(payload.identityKey.s)
                    THEN Null
               ELSE IF ~IsString(payload.name) \/ StrLen(payload.name.s) = 0 THEN Null
               ELSE IF payload.capabilities.t # "array" THEN Null
               ELSE IF ~IsString(payload.timestamp) THEN Null
               ELSE payload

\* parseIdentityOutput: reading a member of null throws and is caught.
parseIdentityOutput(s) ==
    LET r == extractPushDropFields(s)
    IN IF r = Null \/ Len(r.fields) < 1 THEN Null
       ELSE LET payload == r.fields[1]
            IN IF payload.json \in {"throws", "null"} THEN Null
               ELSE IF payload.protocol # JStr(PROTOCOL_ID) THEN Null
               ELSE IF payload.type # JStr("identity") THEN Null
               ELSE IF ~IsString(payload.identityKey) \/ ~TestKey(payload.identityKey.s)
                    THEN Null
               ELSE IF ~IsString(payload.name) \/ StrLen(payload.name.s) = 0 THEN Null
               ELSE IF payload.capabilities.t # "array" THEN Null
               ELSE IF ~IsString(payload.timestamp) THEN Null
               ELSE payload

\* parseRevocationOutput
parseRevocationOutput(s) ==
    LET r == extractPushDropFields(s)
    IN IF r = Null \/ Len(r.fields) < 1 THEN Null
       ELSE LET payload == r.fields[1]
            IN IF payload.json \in {"throws", "null"} THEN Null
               ELSE IF payload.protocol # JStr(PROTOCOL_ID) THEN Null
               ELSE IF payload.type # JStr("identity-revocation") THEN Null
               ELSE IF ~IsString(payload.identityKey) \/ ~TestKey(payload.identityKey.s)
                    THEN Null
               ELSE IF ~IsString(payload.timestamp) THEN Null
               ELSE payload

\* parseServiceOutput: pricing.amountSats of a truthy pricing that is no
\* object is undefined.
parseServiceOutput(s) ==
    LET r == extractPushDropFields(s)
    IN IF r = Null \/ Len(r.fields) < 1 THEN Null
       ELSE LET payload == r.fields[1]
            IN IF payload.json \in {"throws", "null"} THEN Null
               ELSE IF payload.protocol # JStr(PROTOCOL_ID) THEN Null
               ELSE IF payload.type # JStr("service") THEN Null
               ELSE IF ~IsString(payload.identityKey) \/ ~TestKey(payload.identityKey.s)
                    THEN Null
               ELSE IF ~IsString(payload.serviceId) \/ StrLen(payload.serviceId.s) = 0
                    THEN Null
               ELSE IF ~IsString(payload.name) \/ StrLen(payload.name.s) = 0 THEN Null
               ELSE IF Falsy(payload.pricing)
                       \/ (IF payload.pricing.t = "object" THEN payload.amountSats
                           ELSE JUndef).t # "number"
                    THEN Null
               ELSE IF ~IsString(payload.timestamp) THEN Null
               ELSE payload

----------------------------------------------------------------------------
(* SpecPayload: a well-formed payload has up to MaxDefects of its fields   *)
(* changed, or its document or script replaced, and is then parsed.        *)

MaxDefects == 2

\* The payload under test starts as a well-formed payload of one type.
PayloadStart(d) ==
    /\ script = PushDropScript(<<>>) /\ defects = 0 /\ parsed = NoResult
    /\ script' = PushDropScript(<<d>>)
    /\ UNCHANGED <<defects, parsed, NotPayload>>

PayloadSetField(f, v) ==
    /\ parsed = NoResult
    /\ defects < MaxDefects
    /\ script.shape = "pushdrop" /\ Len(script.fields) >= 1
    /\ script.fields[1].json = "object"
    /\ script.fields[1][f] # v
    /\ script' = [script EXCEPT !.fields[1][f] = v]
    /\ defects' = defects + 1
    /\ UNCHANGED <<parsed, NotPayload>>

\* The first field is no JSON object.
PayloadSetDocument(kind) ==
    /\ parsed = NoResult
    /\ defects < MaxDefects
    /\ script.shape = "pushdrop" /\ Len(script.fields) >= 1
    /\ script.fields[1].json = "object"
    /\ script' = [script EXCEPT !.fields[1] = NonObjectDoc(kind)]
    /\ defects' = defects + 1
    /\ UNCHANGED <<parsed, NotPayload>>

\* The output is no token, or a token without fields.
PayloadSetScript(s) ==
    /\ parsed = NoResult
    /\ defects < MaxDefects
    /\ script.shape = "pushdrop" /\ Len(script.fields) >= 1
    /\ script' = s
    /\ defects' = defects + 1
    /\ UNCHANGED <<parsed, NotPayload>>

PayloadParse ==
    /\ parsed = NoResult
    /\ parsed' = [identity |-> parseIdentityOutput(script),
                  revocation |-> parseRevocationOutput(script),
                  service |-> parseServiceOutput(script)]
    /\ UNCHANGED <<script, defects, NotPayload>>

PayloadNext ==
    \/ \E d \in {IdentityDoc, RevocationDoc, ServiceDoc} : PayloadStart(d)
    \/ \E f \in FieldNames : \E v \in FieldValues(f) : PayloadSetField(f, v)
    \/ \E kind \in {"throws", "null", "scalar"} : PayloadSetDocument(kind)
    \/ \E s \in {PushDropScript(<<>>), OtherScript("p2pkh"), OtherScript("opreturn")} :
          PayloadSetScript(s)
    \/ PayloadParse

----------------------------------------------------------------------------
(* Topic manager simulation.  Output indices count from 0 as in the code:  *)
(* the output at position k of the sequence has index k - 1.               *)

EmptyAdmittance == [threw |-> FALSE, outputsToAdmit |-> <<>>, coinsToRetain |-> <<>>]

\* An exception of Beef.fromBinary leaves the function: nothing catches it.
ThrownAdmittance == [threw |-> TRUE, outputsToAdmit |-> <<>>, coinsToRetain |-> <<>>]

\* The identity loop that never tries the revocation parser: a faulty
\* variant.
RECURSIVE identityLoopNoRevocation(_, _, _)
identityLoopNoRevocation(outputs, k, outputsToAdmit) ==
    IF k > Len(outputs) THEN outputsToAdmit
    ELSE IF parseIdentityOutput(outputs[k]) # Null
         THEN identityLoopNoRevocation(outputs, k + 1, Append(outputsToAdmit, k - 1))
         ELSE identityLoopNoRevocation(outputs, k + 1, outputsToAdmit)

\* The loop over subjectTx.outputs from position k on: identity is tried
\* first, then revocation.
RECURSIVE identityLoop(_, _, _)
identityLoop(outputs, k, outputsToAdmit) ==
    IF k > Len(outputs) THEN outputsToAdmit
    ELSE IF parseIdentityOutput(outputs[k]) # Null
         THEN identityLoop(outputs, k + 1, Append(outputsToAdmit, k - 1))
         ELSE IF parseRevocationOutput(outputs[k]) # Null
              THEN identityLoop(outputs, k + 1, Append(outputsToAdmit, k - 1))
              ELSE identityLoop(outputs, k + 1, outputsToAdmit)

\* The service loop that stops at the first output it admits: a faulty
\* variant.
RECURSIVE serviceLoopFirstOnly(_, _, _)
serviceLoopFirstOnly(outputs, k, outputsToAdmit) ==
    IF k > Len(outputs) THEN outputsToAdmit
    ELSE IF parseServiceOutput(outputs[k]) # Null
         THEN Append(outputsToAdmit, k - 1)
         ELSE serviceLoopFirstOnly(outputs, k + 1, outputsToAdmit)

\* The loop over subjectTx.outputs from position k on, service topic.
RECURSIVE serviceLoop(_, _, _)
serviceLoop(outputs, k, outputsToAdmit) ==
    IF k > Len(outputs) THEN outputsToAdmit
    ELSE IF parseServiceOutput(outputs[k]) # Null
         THEN serviceLoop(outputs, k + 1, Append(outputsToAdmit, k - 1))
         ELSE serviceLoop(outputs, k + 1, outputsToAdmit)

\* identifyIdentityOutputs: the subject is parsedBeef.txs[0]._tx, absent for
\* an empty bundle and for a txid-only first entry.
identifyIdentityOutputs(b) ==
    IF ~b.parses THEN ThrownAdmittance
    ELSE IF Len(b.txs) = 0 \/ b.txs[1].txidOnly THEN EmptyAdmittance
    ELSE [EmptyAdmittance EXCEPT
             !.outputsToAdmit = identityLoop(b.txs[1].outputs, 1, <<>>)]

\* identifyServiceOutputs with the oldest (last) entry taken as the subject:
\* a faulty variant.
identifyServiceOutputsOldest(b) ==
    IF ~b.parses THEN ThrownAdmittance
    ELSE IF Len(b.txs) = 0 \/ b.txs[Len(b.txs)].txidOnly THEN EmptyAdmittance
    ELSE [EmptyAdmittance EXCEPT
             !.outputsToAdmit = serviceLoop(b.txs[Len(b.txs)].outputs, 1, <<>>)]

\* identifyServiceOutputs
identifyServiceOutputs(b) ==
    IF ~b.parses THEN ThrownAdmittance
    ELSE IF Len(b.txs) = 0 \/ b.txs[1].txidOnly THEN EmptyAdmittance
    ELSE [EmptyAdmittance EXCEPT
             !.outputsToAdmit = serviceLoop(b.txs[1].outputs, 1, <<>>)]

----------------------------------------------------------------------------
(* SpecAdmit: a bundle is assembled, its transactions given outputs, and   *)
(* one of the two topic managers is run on it.                             *)

MaxAdmitTxs == 3

\* The outputs added to the transactions of one bundle, all together.
MaxOutputs == 3

RECURSIVE TotalOutputs(_)
TotalOutputs(txs) ==
    IF txs = <<>> THEN 0 ELSE Len(txs[1].outputs) + TotalOutputs(Tail(txs))

\* The locking scripts the outputs of the model's transactions carry.
SampleScripts ==
    {PushDropScript(<<IdentityDoc>>), PushDropScript(<<RevocationDoc>>),
     PushDropScript(<<ServiceDoc>>),
     PushDropScript(<<[IdentityDoc EXCEPT !.protocol = JStr("wrong")]>>),
     OtherScript("p2pkh")}


\* Beef.mergeTransaction pushes the transaction and then, for a transaction
\* without a proof, the source transactions of its inputs: the newest
\* transaction is the first entry and every raw entry spends the entry after
\* it.  The entry is a txid-only entry or a raw transaction.
AdmitAddTx(txidOnly) ==
    /\ admitted = NoResult
    /\ bundle.parses
    /\ Len(bundle.txs) < MaxAdmitTxs
    /\ bundle' = [bundle EXCEPT !.txs = Append(@,
                     [txid |-> Len(bundle.txs) + 1,
                      inputs |-> IF txidOnly THEN {} ELSE {Len(bundle.txs) + 2},
                      hasProof |-> FALSE, txidOnly |-> txidOnly, outputs |-> <<>>])]
    /\ UNCHANGED <<admitted, NotAdmit>>

\* createSourceTransaction: a transaction without inputs and with one
\* P2PKH output, at which the recursion of mergeTransaction ends.
AdmitAddSourceTx ==
    /\ admitted = NoResult
    /\ bundle.parses
    /\ Len(bundle.txs) < MaxAdmitTxs
    /\ bundle' = [bundle EXCEPT !.txs = Append(@,
                     [txid |-> Len(bundle.txs) + 1, inputs |-> {},
                      hasProof |-> FALSE, txidOnly |-> FALSE,
                      outputs |-> <<OtherScript("p2pkh")>>])]
    /\ UNCHANGED <<admitted, NotAdmit>>

\* Transaction.addOutput on the entry added last.
AdmitAddOutput(s) ==
    /\ admitted = NoResult
    /\ bundle.parses
    /\ Len(bundle.txs) > 0
    /\ ~bundle.txs[Len(bundle.txs)].txidOnly
    /\ TotalOutputs(bundle.txs) < MaxOutputs
    /\ bundle' = [bundle EXCEPT !.txs[Len(bundle.txs)].outputs = Append(@, s)]
    /\ UNCHANGED <<admitted, NotAdmit>>

\* The buffer is damaged so that Beef.fromBinary throws on it.
AdmitCorrupt ==
    /\ admitted = NoResult
    /\ bundle.parses
    /\ bundle' = [bundle EXCEPT !.parses = FALSE]
    /\ UNCHANGED <<admitted, NotAdmit>>

AdmitIdentity ==
    /\ admitted = NoResult
    /\ admitted' = [topic |-> "tm_clawdbot_identity", result |-> identifyIdentityOutputs(bundle)]
    /\ UNCHANGED <<bundle, NotAdmit>>

AdmitService ==
    /\ admitted = NoResult
    /\ admitted' = [topic |-> "tm_clawdbot_services", result |-> identifyServiceOutputs(bundle)]
    /\ UNCHANGED <<bundle, NotAdmit>>

AdmitNext ==
    \/ \E txidOnly \in BOOLEAN : AdmitAddTx(txidOnly)
    \/ AdmitAddSourceTx
    \/ \E s \in SampleScripts : AdmitAddOutput(s)
    \/ AdmitCorrupt
    \/ AdmitIdentity
    \/ AdmitService

----------------------------------------------------------------------------
(* Discovery.  A lookup answer is a thrown error, an answer without        *)
(* outputs, or a list of {beef, outputIndex}.                              *)

\* parseOverlayOutput: Transaction.fromBEEF takes the last transaction of
\* the bundle and throws on a buffer that does not parse, on an empty bundle
\* and on a txid-only entry; PushDrop.decode throws on a script that is no
\* token; the first field is read as JSON whatever it holds.
parseOverlayOutput(beefData, outputIndex) ==
    IF ~beefData.parses \/ beefData.txs = <<>> \/ beefData.txs[Len(beefData.txs)].txidOnly
    THEN [data |-> Null, txid |-> 0]
    ELSE LET tx == beefData.txs[Len(beefData.txs)]
         IN IF outputIndex + 1 > Len(tx.outputs) THEN [data |-> Null, txid |-> 0]
            ELSE LET r == extractPushDropFields(tx.outputs[outputIndex + 1])
                 IN IF r = Null \/ r.fields = <<>> \/ r.fields[1].json = "throws"
                    THEN [data |-> Null, txid |-> 0]
                    ELSE [data |-> r.fields[1], txid |-> tx.txid]

\* data?.type === type, for the value JSON.parse returned.
HasType(data, type) ==
    data # Null /\ data.json = "object" /\ data.type = JStr(type)

\* The loop of cmdDiscover over the outputs of one lookup answer: an entry
\* is pushed when its data has the wanted type.  from is the lookup output
\* the entry was read from.
RECURSIVE discoverLoop(_, _, _, _)
discoverLoop(outputs, k, type, found) ==
    IF k > Len(outputs) THEN found
    ELSE LET r == parseOverlayOutput(outputs[k].beef, outputs[k].outputIndex)
         IN discoverLoop(outputs, k + 1, type,
                IF HasType(r.data, type)
                THEN Append(found, [data |-> r.data, txid |-> r.txid, from |-> outputs[k]])
                ELSE found)

\* One of the two queries of cmdDiscover: skipped, failed, or looped over.
discoverQuery(skip, answer, type) ==
    IF skip THEN [list |-> <<>>, error |-> FALSE]
    ELSE IF answer.threw THEN [list |-> <<>>, error |-> TRUE]
    ELSE IF ~answer.hasOutputs THEN [list |-> <<>>, error |-> FALSE]
    ELSE [list |-> discoverLoop(answer.outputs, 1, type, <<>>), error |-> FALSE]

----------------------------------------------------------------------------
(* SpecDiscover: the discover command runs against lookup answers.         *)

MaxLookupOutputs == 2

\* A bundle of one transaction with the given outputs.
OneTxBeef(outputs) ==
    [parses |-> TRUE,
     txs |-> <<[txid |-> 1, inputs |-> {}, hasProof |-> TRUE, txidOnly |-> FALSE,
                outputs |-> outputs]>>]

\* The {beef, outputIndex} pairs a lookup service answers with: a token of
\* each kind at index 0, an index past the outputs, a buffer that does not
\* parse.
LookupOutputs ==
    {[beef |-> OneTxBeef(<<s>>), outputIndex |-> 0] : s \in SampleScripts}
    \cup {[beef |-> OneTxBeef(<<PushDropScript(<<IdentityDoc>>)>>), outputIndex |-> 1],
          [beef |-> [parses |-> FALSE, txs |-> <<>>], outputIndex |-> 0]}

LookupLists ==
    UNION {[1..n -> LookupOutputs] : n \in 0..MaxLookupOutputs}

LookupAnswers ==
    {[threw |-> TRUE, hasOutputs |-> FALSE, outputs |-> <<>>],
     [threw |-> FALSE, hasOutputs |-> FALSE, outputs |-> <<>>]}
    \cup {[threw |-> FALSE, hasOutputs |-> TRUE, outputs |-> l] : l \in LookupLists}

\* cmdDiscover(args) with the answers of the two lookups.  filter is the
\* flag given: "--service", "--agent" or none.
cmdDiscover(filter, agentResult, serviceResult) ==
    /\ discovery = NoResult
    /\ LET agents == discoverQuery(filter = "--service", agentResult, "identity")
           services == discoverQuery(filter = "--agent", serviceResult, "service")
       IN discovery' =
             [filter |-> filter,
              agentResult |-> agentResult,
              serviceResult |-> serviceResult,
              agents |-> agents.list,
              services |-> services.list,
              agentCount |-> Len(agents.list),
              serviceCount |-> Len(services.list),
              agentError |-> agents.error,
              serviceError |-> services.error]
    /\ UNCHANGED NotDiscover

DiscoverNext ==
    \E filter \in {"--service", "--agent", "none"} :
        \E agentResult \in LookupAnswers : \E serviceResult \in LookupAnswers :
            cmdDiscover(filter, agentResult, serviceResult)

----------------------------------------------------------------------------
(* SpecBeef: a bundle is assembled one transaction at a time and validated. *)



\* Beef.mergeTransaction / fromBinary reading one more entry.
BeefAddTx(t) ==
    /\ Len(beef.txs) < MaxTxs
    /\ beef.parses
    /\ WellFormedTx(t)
    /\ t.txid \notin TxidsOf(beef.txs)
    /\ beef' = [beef EXCEPT !.txs = Append(@, t)]
    /\ ancestry' = NoResult
    /\ UNCHANGED NotBeef

\* The buffer is damaged so that Beef.fromBinary throws on it.
BeefCorrupt ==
    /\ beef.parses
    /\ beef' = [beef EXCEPT !.parses = FALSE]
    /\ ancestry' = NoResult
    /\ UNCHANGED NotBeef

BeefValidate ==
    /\ ancestry = NoResult
    /\ ancestry' = validateBeefAncestry(beef)
    /\ UNCHANGED <<beef, NotBeef>>

BeefNext ==
    \/ \E t \in BeefTxs : BeefAddTx(t)
    \/ BeefCorrupt
    \/ BeefValidate


----------------------------------------------------------------------------
(* Overlay submission.  The wallet creates a transaction whose output 0    *)
(* carries the payload and the command posts it to the overlay; the        *)
(* overlay answers with an HTTP status and, on success, with the outputs   *)
(* it admitted for the topic.  A transaction id is the number of the       *)
(* createAction call that made it.                                         *)

\* createAction calls in one run.
MaxSubmits == 4

\* Services the operator may advertise, by serviceId.
MaxServices == 2

ServiceIds == 1..MaxServices

IDENTITY_TOPIC == "tm_clawdbot_identity"

SERVICES_TOPIC == "tm_clawdbot_services"

\* The overlay's answer to POST /submit: submitResp.ok and the number of
\* outputs it admitted for the topic; a failed request admits nothing.
SubmitResponses ==
    {r \in [ok : BOOLEAN, admitted : 0..1] : ~r.ok => r.admitted = 0}

\* buildRealOverlayTransaction that takes every answer for a success: a
\* faulty variant.
buildRealOverlayTransactionNeverThrows(topic, txid, resp) ==
    [threw |-> FALSE, txid |-> txid, funded |-> "stored-beef"]

\* buildRealOverlayTransaction: throws on a non-ok response and otherwise
\* returns the txid; the body of the response is never read.
buildRealOverlayTransaction(topic, txid, resp) ==
    IF ~resp.ok
    THEN [threw |-> TRUE, txid |-> txid, message |-> "Overlay submission failed"]
    ELSE [threw |-> FALSE, txid |-> txid, funded |-> "stored-beef"]

\* The identity payload of cmdRegister: the configured protocol tag, the
\* identity key of the wallet, the agent's name and description, the overlay
\* channel, the capabilities and the time.
identityPayload ==
    [json |-> "object", protocol |-> JStr(CONFIG_PROTOCOL_ID),
     type |-> JStr("identity"), identityKey |-> JStr("key66"),
     name |-> JStr("agent"), description |-> JStr("desc"), channels |-> JObj,
     capabilities |-> JArr, timestamp |-> JStr("2026-01-01"),
     serviceId |-> JUndef, pricing |-> JUndef, amountSats |-> JUndef,
     model |-> JUndef]

\* The service payload of cmdRegister, cmdAdvertise and cmdReadvertise: the
\* configured protocol tag, the identity key, the service's id, name and
\* description, the per-task pricing and the time.
servicePayload ==
    [json |-> "object", protocol |-> JStr(CONFIG_PROTOCOL_ID),
     type |-> JStr("service"), identityKey |-> JStr("key66"),
     name |-> JStr("agent"), description |-> JStr("desc"), channels |-> JUndef,
     capabilities |-> JUndef, timestamp |-> JStr("2026-01-01"),
     serviceId |-> JStr("svc"), pricing |-> JObj, amountSats |-> JNum,
     model |-> JStr("per-task")]

\* buildPushDropScript: the token whose one field is JSON.stringify(payload).
buildPushDropScript(payload) == PushDropScript(<<payload>>)

\* One line of the record of what a command sent and what came back;
\* outputs are the locking scripts the command gave to createAction.
Submission(topic, txid, resp, outputs) ==
    [topic |-> topic, txid |-> txid, ok |-> resp.ok, admitted |-> resp.admitted,
     outputs |-> outputs]

\* parseInt(s, 10) for the sample arguments.
parseInt(s) ==
    CASE s = "10" -> [isNaN |-> FALSE, n |-> 10]
      [] s = "25" -> [isNaN |-> FALSE, n |-> 25]
      [] s = "-5" -> [isNaN |-> FALSE, n |-> -5]
      [] s = "0" -> [isNaN |-> FALSE, n |-> 0]
      [] s = "1" -> [isNaN |-> FALSE, n |-> 1]
      [] OTHER -> [isNaN |-> TRUE, n |-> 0]

PriceArgs == {"", "10", "25", "-5", "abc"}

ok(cmd, txid) == [cmd |-> cmd, success |-> TRUE, txid |-> txid, error |-> ""]

fail(cmd, message) == [cmd |-> cmd, success |-> FALSE, txid |-> 0, error |-> message]

\* The savedServices of the local registry that have the given serviceId.
findService(list, serviceId) ==
    {i \in 1..Len(list) : list[i].serviceId = serviceId}

\* The loop of cmdRegister over the configured savedServices from position k:
\* a failed service submission is swallowed, the last txid that went
\* through is kept.
RECURSIVE registerServices(_, _, _, _, _)
registerServices(list, k, resps, firstTxid, serviceTxid) ==
    IF k > Len(list) THEN serviceTxid
    ELSE LET r == buildRealOverlayTransaction(SERVICES_TOPIC, firstTxid + k, resps[k + 1])
         IN  registerServices(list, k + 1, resps, firstTxid,
                              IF r.threw THEN serviceTxid ELSE r.txid)

\* register: walletExists is whether the wallet identity file is there,
\* resps[1] answers the identity submission, resps[k + 1] the submission of
\* the k-th configured service.
cmdRegister(walletExists, resps) ==
    /\ txCount + 1 + Len(savedServices) <= MaxSubmits
    /\ IF ~walletExists
       THEN /\ report' = fail("register", "Wallet not initialized. Run: setup")
            /\ submitted' = <<>>
            /\ UNCHANGED <<registration, txCount>>
       ELSE IF registration # Null
       THEN /\ report' = [ok("register", registration.identityTxid)
                              EXCEPT !.error = "alreadyRegistered"]
            /\ submitted' = <<>>
            /\ UNCHANGED <<registration, txCount>>
       ELSE LET identityResult ==
                    buildRealOverlayTransaction(IDENTITY_TOPIC, txCount + 1, resps[1])
            IN  IF identityResult.threw
                THEN /\ report' = fail("register", "Registration failed")
                     /\ submitted' = <<Submission(IDENTITY_TOPIC, txCount + 1, resps[1],
                                                 <<buildPushDropScript(identityPayload)>>)>>
                     /\ txCount' = txCount + 1
                     /\ UNCHANGED registration
                ELSE /\ registration' =
                            [identityTxid |-> identityResult.txid,
                             serviceTxid |-> registerServices(savedServices, 1, resps,
                                                              txCount + 1, 0)]
                     /\ report' = ok("register", identityResult.txid)
                     /\ submitted' =
                            <<Submission(IDENTITY_TOPIC, txCount + 1, resps[1],
                                                 <<buildPushDropScript(identityPayload)>>)>> \o
                            [k \in 1..Len(savedServices) |->
                                Submission(SERVICES_TOPIC, txCount + 1 + k, resps[k + 1],
                                           <<buildPushDropScript(servicePayload)>>)]
                     /\ txCount' = txCount + 1 + Len(savedServices)
    /\ UNCHANGED <<savedServices, NotSubmit>>

\* advertise: serviceId 0 and the empty strings stand for missing arguments.
cmdAdvertise(serviceId, name, priceSatsStr, resp) ==
    /\ txCount + 1 <= MaxSubmits
    /\ IF serviceId = 0 \/ name = "" \/ priceSatsStr = ""
       THEN /\ report' = fail("advertise", "Usage")
            /\ submitted' = <<>>
            /\ UNCHANGED <<savedServices, txCount>>
       ELSE IF parseInt(priceSatsStr).isNaN \/ parseInt(priceSatsStr).n < 0
       THEN /\ report' = fail("advertise", "priceSats must be a non-negative integer")
            /\ submitted' = <<>>
            /\ UNCHANGED <<savedServices, txCount>>
       ELSE IF findService(savedServices, serviceId) # {}
       THEN /\ report' = fail("advertise", "already exists")
            /\ submitted' = <<>>
            /\ UNCHANGED <<savedServices, txCount>>
       ELSE LET result == buildRealOverlayTransaction(SERVICES_TOPIC, txCount + 1, resp)
            IN  /\ submitted' = <<Submission(SERVICES_TOPIC, txCount + 1, resp,
                                            <<buildPushDropScript(servicePayload)>>)>>
                /\ txCount' = txCount + 1
                /\ IF result.threw
                   THEN /\ report' = fail("advertise", "Failed to advertise service")
                        /\ UNCHANGED savedServices
                   ELSE /\ savedServices' = Append(savedServices,
                                [serviceId |-> serviceId,
                                 priceSats |-> parseInt(priceSatsStr).n,
                                 txid |-> result.txid])
                        /\ report' = ok("advertise", result.txid)
    /\ UNCHANGED <<registration, NotSubmit>>

\* readvertise: the changed service is saved only when the submission went
\* through.
cmdReadvertise(serviceId, priceSatsStr, resp) ==
    /\ txCount + 1 <= MaxSubmits
    /\ IF serviceId = 0
       THEN /\ report' = fail("readvertise", "Usage")
            /\ submitted' = <<>>
            /\ UNCHANGED <<savedServices, txCount>>
       ELSE IF findService(savedServices, serviceId) = {}
       THEN /\ report' = fail("readvertise", "not found")
            /\ submitted' = <<>>
            /\ UNCHANGED <<savedServices, txCount>>
       ELSE IF priceSatsStr # "" /\
               (parseInt(priceSatsStr).isNaN \/ parseInt(priceSatsStr).n < 0)
       THEN /\ report' = fail("readvertise", "priceSats must be a non-negative integer")
            /\ submitted' = <<>>
            /\ UNCHANGED <<savedServices, txCount>>
       ELSE LET i == CHOOSE j \in findService(savedServices, serviceId) :
                        \A l \in findService(savedServices, serviceId) : j <= l
                result == buildRealOverlayTransaction(SERVICES_TOPIC, txCount + 1, resp)
            IN  /\ submitted' = <<Submission(SERVICES_TOPIC, txCount + 1, resp,
                                            <<buildPushDropScript(servicePayload)>>)>>
                /\ txCount' = txCount + 1
                /\ IF result.threw
                   THEN /\ report' = fail("readvertise", "Failed to readvertise service")
                        /\ UNCHANGED savedServices
                   ELSE /\ savedServices' = [savedServices EXCEPT
                                ![i].priceSats = IF priceSatsStr = "" THEN @
                                                 ELSE parseInt(priceSatsStr).n,
                                ![i].txid = result.txid]
                        /\ report' = ok("readvertise", result.txid)
    /\ UNCHANGED <<registration, NotSubmit>>

\* remove: drops the first service with the id from the local registry.
cmdRemove(serviceId) ==
    /\ IF serviceId = 0
       THEN /\ report' = fail("remove", "Usage")
            /\ UNCHANGED savedServices
       ELSE IF findService(savedServices, serviceId) = {}
       THEN /\ report' = fail("remove", "not found")
            /\ UNCHANGED savedServices
       ELSE LET idx == CHOOSE j \in findService(savedServices, serviceId) :
                          \A l \in findService(savedServices, serviceId) : j <= l
            IN  /\ savedServices' = SubSeq(savedServices, 1, idx - 1) \o
                                SubSeq(savedServices, idx + 1, Len(savedServices))
                /\ report' = ok("remove", 0)
    /\ submitted' = <<>>
    /\ UNCHANGED <<registration, txCount, NotSubmit>>

\* unregister: spends the registration token and posts the revocation; a
\* non-ok answer is thrown out of the command, an ok answer deletes the
\* local registration.
cmdUnregister(resp) ==
    /\ txCount + 1 <= MaxSubmits
    /\ submitted' = <<Submission(IDENTITY_TOPIC, txCount + 1, resp, <<>>)>>
    /\ txCount' = txCount + 1
    /\ IF ~resp.ok
       THEN /\ report' = fail("unregister", "Overlay submission failed")
            /\ UNCHANGED registration
       ELSE /\ registration' = Null
            /\ report' = ok("unregister", txCount + 1)
    /\ UNCHANGED <<savedServices, NotSubmit>>

SubmitNext ==
    \/ \E walletExists \in BOOLEAN, resps \in [1..(MaxServices + 1) -> SubmitResponses] :
          cmdRegister(walletExists, resps)
    \/ \E serviceId \in 0..MaxServices, name \in {"", "svc"},
          priceSatsStr \in PriceArgs, resp \in SubmitResponses :
            cmdAdvertise(serviceId, name, priceSatsStr, resp)
    \/ \E serviceId \in 0..MaxServices, priceSatsStr \in PriceArgs,
          resp \in SubmitResponses : cmdReadvertise(serviceId, priceSatsStr, resp)
    \/ \E serviceId \in 0..MaxServices : cmdRemove(serviceId)
    \/ \E resp \in SubmitResponses : cmdUnregister(resp)

----------------------------------------------------------------------------
(* Key derivation.  Keys are terms: a root private key is named by a       *)
(* number, a child private key by its root and the invoice number it was   *)
(* derived for.  A public key and an address are named by the private key  *)
(* they belong to: two addresses are equal exactly when their private keys *)
(* are (the hash has no collisions).                                       *)

\* Root keys PrivateKey.fromRandom() can return.
MaxRoots == 4

RootKeys == 1..MaxRoots

\* PrivateKey.fromRandom() / PrivateKey.fromHex(rootKeyHex).
RootPrivateKey(r) == [root |-> r, invoice |-> ""]

toPublicKey(priv) == [publicKeyOf |-> priv]

toAddress(pub) == [addressOf |-> pub.publicKeyOf]

toWif(priv) == [wifOf |-> priv]

\* Utils.toBase64(Utils.toArray(s, 'utf8')) for the sample strings.
toBase64(s) ==
    CASE s = "import" -> "aW1wb3J0"
      [] s = "now" -> "bm93"
      [] s = "later" -> "bGF0ZXI="
      [] s = "pay" -> "cGF5"
      [] s = "importn" -> "aW1wb3J0bg=="
      [] s = "ow" -> "b3c="
      [] OTHER -> ""

DerivationPrefixes == {"import", "pay", "importn"}

DerivationSuffixes == {"now", "later", "ow"}

\* brc29ProtocolID = [2, '3241645161d8'] of the wallet toolbox.
brc29ProtocolID == [securityLevel |-> "2", protocol |-> "3241645161d8"]

\* KeyDeriver.computeInvoiceNumber: level, protocol name and key id joined
\* by dashes.
computeInvoiceNumber(protocolID, keyID) ==
    protocolID.securityLevel \o "-" \o protocolID.protocol \o "-" \o keyID

\* KeyDeriver.derivePrivateKey(protocolID, keyID, 'self'): the root scalar
\* plus the HMAC of the invoice number under the shared secret.
derivePrivateKey(rootPrivKey, protocolID, keyID) ==
    [root |-> rootPrivKey.root, invoice |-> computeInvoiceNumber(protocolID, keyID)]

\* KeyDeriver.derivePublicKey(protocolID, keyID, 'self', true): the public
\* key of the derived private key.
derivePublicKey(rootPrivKey, protocolID, keyID) ==
    toPublicKey(derivePrivateKey(rootPrivKey, protocolID, keyID))

\* The key of a payment with prefix and suffix joined as they are: a
\* faulty variant.
deriveChildPlainConcat(rootPrivKey, prefix, suffix) ==
    LET keyString == prefix \o suffix
    IN  [fn |-> "derivePrivateKey",
         path |-> <<prefix, suffix>>,
         keyString |-> keyString,
         privateKey |-> derivePrivateKey(rootPrivKey, brc29ProtocolID, keyString),
         address |-> toAddress(derivePublicKey(rootPrivKey, brc29ProtocolID, keyString))]

\* The BRC-29 key of a payment: keyString is prefix and suffix, each in
\* base64, joined by one space.
deriveChild(rootPrivKey, prefix, suffix) ==
    LET keyString == toBase64(prefix) \o " " \o toBase64(suffix)
    IN  [fn |-> "derivePrivateKey",
         path |-> <<prefix, suffix>>,
         keyString |-> keyString,
         privateKey |-> derivePrivateKey(rootPrivKey, brc29ProtocolID, keyString),
         address |-> toAddress(derivePublicKey(rootPrivKey, brc29ProtocolID, keyString))]

\* deriveWifAndAddress(rootKeyHex): the WIF and the address of the key that
\* rootKeyHex itself encodes.
deriveWifAndAddress(r) ==
    LET privKey == RootPrivateKey(r)
    IN  [fn |-> "deriveWifAndAddress",
         path |-> <<"", "">>,
         keyString |-> "",
         privateKey |-> privKey,
         wif |-> toWif(privKey),
         address |-> toAddress(toPublicKey(privKey))]

\* A wallet identity is created with a fresh root key.
KeysCreateRoot(r) ==
    /\ rootKey' = r
    /\ derived' = {}
    /\ UNCHANGED NotKeys

\* A payment key is derived for (prefix, suffix).
KeysDeriveChild(prefix, suffix) ==
    /\ rootKey # 0
    /\ derived' = derived \cup {deriveChild(RootPrivateKey(rootKey), prefix, suffix)}
    /\ UNCHANGED <<rootKey, NotKeys>>

\* buildMneePayment: the sender key of a MNEE payment.
KeysDeriveWifAndAddress ==
    /\ rootKey # 0
    /\ derived' = derived \cup {deriveWifAndAddress(rootKey)}
    /\ UNCHANGED <<rootKey, NotKeys>>

KeysNext ==
    \/ \E r \in RootKeys : KeysCreateRoot(r)
    \/ \E prefix \in DerivationPrefixes, suffix \in DerivationSuffixes :
          KeysDeriveChild(prefix, suffix)
    \/ KeysDeriveWifAndAddress

----------------------------------------------------------------------------
(* The import command.  cmdImport is an async function: each await on the  *)
(* network or the wallet is a point where it waits for an answer, and     *)
(* importPc is the await it is at.  Time is in milliseconds since          *)
(* startTime.                                                              *)

\* const maxWaitMs = 60000
maxWaitMs == 60000

\* The factor and the ceiling of Math.min(1000 * Math.pow(1.5, attempt), 10000).
backoffBaseMs == 1000

backoffCapMs == 10000

\* The timeout handed to wocFetch for one query.
wocTimeoutMs == 10000

\* How long the indexer takes to answer one query: at once, or the timeout.
FetchMs == {0, wocTimeoutMs}

Min(a, b) == IF a <= b THEN a ELSE b

\* Faulty variants of delayMs: without the ceiling, and without growth.
delayMsUncapped(n) == (backoffBaseMs * (3 ^ n)) \div (2 ^ n)

delayMsConstant(n) == backoffBaseMs

\* delayMs of the retry numbered n; 1.5 is 3/2, and the timer runs for
\* the whole milliseconds of the delay.
delayMs(n) == Min((backoffBaseMs * (3 ^ n)) \div (2 ^ n), backoffCapMs)

\* The answers of the indexer to GET /tx/{txid}: status and, on 200, the
\* confirmations and the number of outputs of the transaction.
TxInfos == [confirmations : 0..1, vout : 1..2]

WocAnswers ==
    [status : {200}, txInfo : TxInfos] \cup [status : {404, 429, 500}, txInfo : {Null}]

\* A faulty variant of classify: every answer but 200 is retried.
classifyAnyErrorRetried(resp) ==
    IF resp.status = 200 THEN "found" ELSE "retry"

\* How the polling loop treats an answer: break, retry or fail.
classify(resp) ==
    IF resp.status = 200 THEN "found"
    ELSE IF resp.status = 404 THEN "retry"
    ELSE "fail"

\* The txid arguments of the samples: toLowerCase and the test of
\* /^[0-9a-f]{64}$/; "tx" stands for 64 hex characters.
TxidArgs == {"", "TX", "tx", "not-hex"}

toLowerCase(s) == IF s = "TX" THEN "tx" ELSE s

IsTxid(s) == s = "tx"

VoutArgs == {"", "0", "1"}

\* Transactions of an indexer bundle.  The target of the import is the
\* newest transaction, MaxImportTxs; its ancestors have smaller ids.
MaxImportTxs == 2

ImportTxs ==
    {t \in [txid : 1..MaxImportTxs, inputs : SUBSET (0..MaxImportTxs),
            hasProof : BOOLEAN, txidOnly : BOOLEAN, outputs : 1..2] :
        /\ \A i \in t.inputs : i < t.txid
        /\ t.txidOnly => (~t.hasProof /\ t.inputs = {} /\ t.outputs = 1)
        /\ t.hasProof => t.inputs = {0}
        /\ t.txid < MaxImportTxs => t.outputs = 1}

\* The bundles of at most one record per transaction, oldest first.
RECURSIVE ImportBundlesUpTo(_)
ImportBundlesUpTo(n) ==
    IF n = 0 THEN {<<>>}
    ELSE LET shorter == ImportBundlesUpTo(n - 1)
         IN  shorter \cup
             {Append(txs, t) : txs \in shorter, t \in {u \in ImportTxs : u.txid = n}}

\* What fetchBeefFromWoC returns: nothing, bytes that do not parse, or a
\* bundle.
WocBeefs ==
    {Null, [parses |-> FALSE, txs |-> <<>>]} \cup
    {[parses |-> TRUE, txs |-> txs] : txs \in ImportBundlesUpTo(MaxImportTxs)}

\* Beef.findTxid
findTxid(b, txid) == {i \in 1..Len(b.txs) : b.txs[i].txid = txid}

\* Beef.toBinaryAtomic(txid): the same records, marked with the txid.
toBinaryAtomic(b, txid) == [parses |-> TRUE, txs |-> b.txs, atomicTxid |-> txid]

\* The bundle built by hand without the merkle path set on the
\* transaction: a faulty variant.
ManualBeefUnproven(txid, nout) ==
    [parses |-> TRUE,
     txs |-> <<[txid |-> txid, inputs |-> {0}, hasProof |-> FALSE,
                txidOnly |-> FALSE, outputs |-> nout]>>,
     atomicTxid |-> txid]

\* The bundle built by hand for a confirmed transaction: the transaction
\* with its merkle path and nothing else.
ManualBeef(txid, nout) ==
    [parses |-> TRUE,
     txs |-> <<[txid |-> txid, inputs |-> {0}, hasProof |-> TRUE,
                txidOnly |-> FALSE, outputs |-> nout]>>,
     atomicTxid |-> txid]

\* What cmdImport does with the bytes of the indexer's bundle: "fail" when
\* the parsed transaction lacks the output, "use" when the txid is found,
\* "none" otherwise (no bytes, a parse error, no such txid).
useWocBeef(wocBeef, txid, vout) ==
    IF wocBeef = Null THEN "none"
    ELSE IF ~wocBeef.parses THEN "none"
    ELSE IF findTxid(wocBeef, txid) = {} THEN "none"
    ELSE LET foundTx == wocBeef.txs[CHOOSE i \in findTxid(wocBeef, txid) : TRUE]
         IN  IF ~foundTx.txidOnly /\ vout >= foundTx.outputs THEN "fail" ELSE "use"

importOk == [success |-> TRUE, error |-> "", names |-> 0]

importFail(message, names) == [success |-> FALSE, error |-> message, names |-> names]

\* The command ends with a failure.
ImportFails(message, names) ==
    /\ importPc' = "done"
    /\ importResult' = importFail(message, names)

\* import <txid> [vout]: the arguments are checked, the clock starts and
\* the first query is sent.
ImportStart(txidArg, voutStr) ==
    /\ importPc = "idle"
    /\ IF txidArg = ""
       THEN /\ ImportFails("Usage: import <txid> [vout]", 0)
            /\ UNCHANGED importArgs
       ELSE IF ~IsTxid(toLowerCase(txidArg))
       THEN /\ ImportFails("Invalid txid", 0)
            /\ UNCHANGED importArgs
       ELSE /\ importArgs' = [txid |-> MaxImportTxs,
                              vout |-> parseInt(IF voutStr = "" THEN "0" ELSE voutStr).n]
            /\ importPc' = "query"
            /\ UNCHANGED importResult
    /\ UNCHANGED <<elapsed, attempt, answers, slept, pollOutcome, txInfo,
                   atomicBeef, handed, imported, NotImport>>

\* The indexer answers the query after ms milliseconds.  200 leaves the
\* loop; the output index is checked and the indexer's bundle is asked
\* for.  404 counts an attempt and starts the backoff sleep.  Any other
\* status fails the command.
ImportAnswer(resp, ms) ==
    /\ importPc = "query"
    /\ elapsed' = elapsed + ms
    /\ answers' = Append(answers, resp.status)
    /\ IF classify(resp) = "found"
       THEN /\ txInfo' = resp.txInfo
            /\ pollOutcome' = "Found"
            /\ IF importArgs.vout >= resp.txInfo.vout
               THEN ImportFails("Output index not found in transaction", 0)
               ELSE /\ importPc' = "beef"
                    /\ UNCHANGED importResult
            /\ UNCHANGED <<attempt, slept>>
       ELSE IF classify(resp) = "retry"
       THEN /\ attempt' = attempt + 1
            /\ slept' = Append(slept, delayMs(attempt + 1))
            /\ importPc' = "sleep"
            /\ UNCHANGED <<txInfo, pollOutcome, importResult>>
       ELSE /\ pollOutcome' = "Failed"
            /\ ImportFails("Failed to fetch tx info", 0)
            /\ UNCHANGED <<attempt, slept, txInfo>>
    /\ UNCHANGED <<importArgs, atomicBeef, handed, imported, NotImport>>

\* The backoff sleep is over.  Within the budget the next query is sent;
\* past it the loop ends without txInfo and the command fails, naming the
\* txid.
ImportWake ==
    /\ importPc = "sleep"
    /\ elapsed' = elapsed + slept[Len(slept)]
    /\ IF elapsed' < maxWaitMs
       THEN /\ importPc' = "query"
            /\ UNCHANGED <<pollOutcome, importResult>>
       ELSE /\ pollOutcome' = "TimedOut"
            /\ ImportFails("Transaction not found on WhatsOnChain after the wait",
                           importArgs.txid)
    /\ UNCHANGED <<attempt, answers, slept, txInfo, importArgs, atomicBeef,
                   handed, imported, NotImport>>

\* The polling loop on its own.
PollNext ==
    \/ \E txidArg \in TxidArgs, voutStr \in VoutArgs : ImportStart(txidArg, voutStr)
    \/ \E resp \in WocAnswers, ms \in FetchMs : ImportAnswer(resp, ms)
    \/ ImportWake

\* A test of confirmation that takes every transaction as confirmed: a
\* faulty variant.
isConfirmedAlways(info) == TRUE

\* isConfirmed: the indexer reports at least one confirmation.
isConfirmed(info) == info.confirmations >= 1

\* fetchBeefFromWoC has answered.  A bundle in which the txid is found is
\* taken as it is; without one, a confirmed transaction gets a bundle built
\* by hand and an unconfirmed one fails.
ImportBeef(wocBeef) ==
    /\ importPc = "beef"
    /\ LET use == useWocBeef(wocBeef, importArgs.txid, importArgs.vout)
       IN  IF use = "fail"
           THEN /\ ImportFails("Output index not found in BEEF transaction", 0)
                /\ UNCHANGED atomicBeef
           ELSE IF use = "use"
           THEN /\ atomicBeef' = [beef |-> toBinaryAtomic(wocBeef, importArgs.txid),
                                  via |-> "woc"]
                /\ importPc' = "internalize"
                /\ UNCHANGED importResult
           ELSE IF isConfirmed(txInfo)
           THEN /\ importPc' = "rawtx"
                /\ UNCHANGED <<atomicBeef, importResult>>
           ELSE /\ ImportFails("Transaction is unconfirmed and BEEF is not available",
                               importArgs.txid)
                /\ UNCHANGED atomicBeef
    /\ UNCHANGED <<elapsed, attempt, answers, slept, pollOutcome, txInfo,
                   importArgs, handed, imported, NotImport>>

\* The raw transaction has been asked for: a non-ok answer or hex that
\* does not parse fails the command, otherwise the proof is asked for.
ImportRawTx(status, parses) ==
    /\ importPc = "rawtx"
    /\ IF status # 200
       THEN ImportFails("Failed to fetch raw transaction", 0)
       ELSE IF ~parses
       THEN ImportFails("Failed to construct BEEF manually", 0)
       ELSE /\ importPc' = "proof"
            /\ UNCHANGED importResult
    /\ UNCHANGED <<elapsed, attempt, answers, slept, pollOutcome, txInfo,
                   importArgs, atomicBeef, handed, imported, NotImport>>

\* The merkle proof has been asked for: proofs is the length of the array
\* that came back, -1 for an answer that is no array.
ImportProof(status, proofs) ==
    /\ importPc = "proof"
    /\ IF status # 200
       THEN /\ ImportFails("Failed to fetch merkle proof", 0)
            /\ UNCHANGED atomicBeef
       ELSE IF proofs <= 0
       THEN /\ ImportFails("Merkle proof not available from WoC", 0)
            /\ UNCHANGED atomicBeef
       ELSE /\ atomicBeef' = [beef |-> ManualBeef(importArgs.txid, txInfo.vout),
                              via |-> "manual"]
            /\ importPc' = "internalize"
            /\ UNCHANGED importResult
    /\ UNCHANGED <<elapsed, attempt, answers, slept, pollOutcome, txInfo,
                   importArgs, handed, imported, NotImport>>

\* The wallet is handed the bundle: outcome is what internalizeAction did
\* with it.
ImportInternalize(outcome) ==
    /\ importPc = "internalize"
    /\ handed' = Append(handed, atomicBeef)
    /\ importPc' = "done"
    /\ imported' = (outcome = "accepted")
    /\ importResult' =
          CASE outcome = "accepted" -> importOk
            [] outcome = "already" -> importFail("appears to already be imported", importArgs.txid)
            [] outcome = "script" -> importFail("does not belong to this wallet's address", importArgs.txid)
            [] OTHER -> importFail("Failed to import UTXO", 0)
    /\ UNCHANGED <<elapsed, attempt, answers, slept, pollOutcome, txInfo,
                   importArgs, atomicBeef, NotImport>>

ImportNext ==
    \/ \E txidArg \in TxidArgs, voutStr \in VoutArgs : ImportStart(txidArg, voutStr)
    \/ \E resp \in WocAnswers, ms \in FetchMs : ImportAnswer(resp, ms)
    \/ ImportWake
    \/ \E wocBeef \in WocBeefs : ImportBeef(wocBeef)
    \/ \E status \in {200, 404}, parses \in BOOLEAN : ImportRawTx(status, parses)
    \/ \E status \in {200, 404}, proofs \in -1..1 : ImportProof(status, proofs)
    \/ \E outcome \in {"accepted", "already", "script", "other"} : ImportInternalize(outcome)

----------------------------------------------------------------------------
(* Bundle decoding.  A buffer is its length in bytes, its first four bytes *)
(* in hex, and what Beef.fromBinary makes of it: it throws, or it returns  *)
(* a bundle with txCount transactions and bumps merkle paths.              *)

\* The longest buffer of the samples, in bytes.
MaxBufferLen == 6

BEEF_V1 == "0100beef"

BEEF_V2 == "0200beef"

\* The first four bytes of the samples, "" for a buffer that has fewer.
Magics == {BEEF_V1, BEEF_V2, "deadbeef", "00000000"}

\* What Beef.fromBinary does with the bytes.  After the marker alone there
\* is nothing to read: the reader throws or yields an empty bundle; a
\* longer buffer can hold transactions.
FromBinaryOutcomes(length) ==
    {[threw |-> TRUE, txCount |-> 0, bumps |-> 0],
     [threw |-> FALSE, txCount |-> 0, bumps |-> 0]} \cup
    (IF length > 4
     THEN [threw : {FALSE}, txCount : 1..2, bumps : 0..1]
     ELSE {})

Buffers ==
    {b \in [length : 0..MaxBufferLen, magic : Magics \cup {""},
            fromBinary : FromBinaryOutcomes(MaxBufferLen)] :
        /\ b.magic = "" <=> b.length < 4
        /\ b.fromBinary \in FromBinaryOutcomes(b.length)
        /\ b.length < 4 => b.fromBinary.threw}

\* Whether validateBeef reaches Beef.fromBinary(beef).
validateBeefCallsFromBinary(b) ==
    /\ ~(b.length < 4)
    /\ b.magic \in {BEEF_V1, BEEF_V2}

\* validateBeef(beef): the whole body is inside one try, so what
\* Beef.fromBinary throws becomes the error of the result.
validateBeef(b) ==
    IF b.length < 4
    THEN [valid |-> FALSE, error |-> "BEEF too short", version |-> 0,
          txCount |-> 0, hasProofs |-> FALSE]
    ELSE IF b.magic # BEEF_V1 /\ b.magic # BEEF_V2
    THEN [valid |-> FALSE, error |-> "Invalid magic bytes", version |-> 0,
          txCount |-> 0, hasProofs |-> FALSE]
    ELSE IF b.fromBinary.threw
    THEN [valid |-> FALSE, error |-> "parse error", version |-> 0,
          txCount |-> 0, hasProofs |-> FALSE]
    ELSE IF b.fromBinary.txCount = 0
    THEN [valid |-> FALSE, error |-> "BEEF contains no transactions", version |-> 0,
          txCount |-> 0, hasProofs |-> FALSE]
    ELSE [valid |-> TRUE, error |-> "",
          version |-> IF b.magic = BEEF_V1 THEN 1 ELSE 2,
          txCount |-> b.fromBinary.txCount,
          hasProofs |-> b.fromBinary.bumps > 0]

\* A buffer arrives.
DecodeReceive(b) ==
    /\ buffer' = b
    /\ decoded' = NoResult
    /\ fromBinaryCalls' = 0
    /\ UNCHANGED NotDecode

\* validateBeef(buffer)
DecodeValidate ==
    /\ buffer # Null
    /\ decoded = NoResult
    /\ decoded' = validateBeef(buffer)
    /\ fromBinaryCalls' = IF validateBeefCallsFromBinary(buffer) THEN 1 ELSE 0
    /\ UNCHANGED <<buffer, NotDecode>>

DecodeNext ==
    \/ \E b \in Buffers : DecodeReceive(b)
    \/ DecodeValidate

----------------------------------------------------------------------------
(* The service queue.  An incoming service-request message is processed,   *)
(* the pending requests are listed for the agent, and the agent answers a  *)
(* request of the queue.  The queue file is a sequence of entries.         *)

MaxRequests == 2

MaxQueueOps == 5

RequestIds == 1..MaxRequests

\* finalStatuses
finalStatuses == {"fulfilled", "rejected", "delivery_failed", "failed", "error"}

\* What the payment verification returns: accepted, or refused with its error.
PaymentVerifications ==
    {[accepted |-> TRUE, error |-> ""],
     [accepted |-> FALSE, error |-> "insufficient payment: 10 < 50"]}

\* The positions of the entries with the request id.
entriesOf(q, requestId) == {i \in 1..Len(q) : q[i].requestId = requestId}

\* 60 * 60 * 1000
hourMs == 3600000

\* Date.now() at the moment of a call.
storeNow == 25 * hourMs

\* { ...object, ...fields }: the fields of the second override the first's.
spread(object, fields) ==
    [k \in DOMAIN object \cup DOMAIN fields |->
        IF k \in DOMAIN fields THEN fields[k] ELSE object[k]]

\* A line on which JSON.parse throws.
isMalformed(line) == "malformed" \in DOMAIN line /\ line.malformed

\* No additional fields: {}.
NoFields == <<>>

\* A status update that stamps every line of the file: a faulty variant.
updateServiceQueueStatusEveryLine(q, requestId, newStatus, additionalFields, now) ==
    [updated |-> TRUE,
     queue |-> [i \in 1..Len(q) |->
                   spread(spread(spread(q[i], [status |-> newStatus]),
                                 additionalFields),
                          [updatedAt |-> now])]]

\* updateServiceQueueStatus: every parsed entry with the request id becomes
\* { ...entry, status: newStatus, ...additionalFields, updatedAt: now }, every
\* other line stays as it is; updated tells whether there was such an entry.
\* The file is written only when updated.
updateServiceQueueStatus(q, requestId, newStatus, additionalFields, now) ==
    LET hit(line) == ~isMalformed(line) /\ line.requestId = requestId
    IN  [updated |-> \E i \in 1..Len(q) : hit(q[i]),
         queue |-> [i \in 1..Len(q) |->
                       IF hit(q[i])
                       THEN spread(spread(spread(q[i], [status |-> newStatus]),
                                          additionalFields),
                                   [updatedAt |-> now])
                       ELSE q[i]]]

\* A lookup that never finds the request: a faulty variant.
existingEntryNever(q, requestId) == Null

\* The entry of the request a message repeats, Null for a new request.
existingEntry(q, requestId) ==
    IF entriesOf(q, requestId) = {} THEN Null
    ELSE q[CHOOSE i \in entriesOf(q, requestId) :
               \A j \in entriesOf(q, requestId) : i <= j]

\* The entry of a refused payment left pending: a faulty variant.
rejectedEntryPending(requestId, error) ==
    [requestId |-> requestId, status |-> "pending", error |-> error]

\* The entry written for a request whose payment was refused.
rejectedEntry(requestId, error) ==
    [requestId |-> requestId, status |-> "rejected", error |-> error]

\* processMessage for a service-request: a repeated request is answered
\* from its entry; a new one has its payment verified and is queued as
\* pending or recorded as rejected.
processMessage(q, requestId, verification) ==
    LET existing == existingEntry(q, requestId)
    IN  IF existing # Null
        THEN [queue |-> q,
              result |-> [requestId |-> requestId,
                          action |-> IF existing.status = "pending" THEN "already-queued"
                                     ELSE "already-" \o existing.status,
                          reason |-> "", verified |-> FALSE, paymentAccepted |-> FALSE]]
        ELSE IF verification.accepted
        THEN [queue |-> Append(q, [requestId |-> requestId, status |-> "pending",
                                   error |-> ""]),
              result |-> [requestId |-> requestId, action |-> "queued-for-agent",
                          reason |-> "", verified |-> TRUE, paymentAccepted |-> TRUE]]
        ELSE [queue |-> Append(q, rejectedEntry(requestId, verification.error)),
              result |-> [requestId |-> requestId, action |-> "rejected",
                          reason |-> "Payment rejected: " \o verification.error,
                          verified |-> TRUE, paymentAccepted |-> FALSE]]

\* cmdServiceQueue: the pending entries, their number and the number of all.
cmdServiceQueue(q) ==
    LET pending == SelectSeq(q, LAMBDA e : e.status = "pending")
    IN  [pending |-> pending, count |-> Len(pending), total |-> Len(q)]

\* A test that takes no status as final: a faulty variant.
isFinalStatusNever(status) == FALSE

isFinalStatus(status) == status \in finalStatuses

\* cmdRespondService for a request of the queue: an entry with a final
\* status is reported and nothing is sent; otherwise the response is sent
\* and the entry marked fulfilled.
cmdRespondService(q, requestId) ==
    LET entry == existingEntry(q, requestId)
    IN  IF isFinalStatus(entry.status)
        THEN [queue |-> q, sends |-> <<>>,
              data |-> [requestId |-> requestId, sent |-> FALSE,
                        alreadyProcessed |-> TRUE, previousStatus |-> entry.status]]
        ELSE [queue |-> updateServiceQueueStatus(q, requestId, "fulfilled",
                                                    NoFields, storeNow).queue,
              sends |-> <<requestId>>,
              data |-> [requestId |-> requestId, sent |-> TRUE,
                        alreadyProcessed |-> FALSE, previousStatus |-> ""]]

\* A message with the request id arrives and is processed.
QueueProcessMessage(requestId, verification) ==
    /\ queueOps < MaxQueueOps
    /\ queueOps' = queueOps + 1
    /\ serviceQueue' = processMessage(serviceQueue, requestId, verification).queue
    /\ processed' = [call |-> queueOps + 1,
                     result |-> processMessage(serviceQueue, requestId, verification).result]
    /\ UNCHANGED <<relayOutbox, responded, queueReport, NotQueue>>

\* The agent asks for the pending requests.
QueueServiceQueue ==
    /\ queueOps < MaxQueueOps
    /\ queueOps' = queueOps + 1
    /\ queueReport' = cmdServiceQueue(serviceQueue)
    /\ UNCHANGED <<serviceQueue, relayOutbox, processed, responded, NotQueue>>

\* The agent answers a request that has an entry in the queue.
QueueRespondService(requestId) ==
    /\ queueOps < MaxQueueOps
    /\ entriesOf(serviceQueue, requestId) # {}
    /\ queueOps' = queueOps + 1
    /\ serviceQueue' = cmdRespondService(serviceQueue, requestId).queue
    /\ relayOutbox' = relayOutbox \o cmdRespondService(serviceQueue, requestId).sends
    /\ responded' = [call |-> queueOps + 1,
                     data |-> cmdRespondService(serviceQueue, requestId).data]
    /\ UNCHANGED <<processed, queueReport, NotQueue>>

QueueNext ==
    \/ \E requestId \in RequestIds, verification \in PaymentVerifications :
          QueueProcessMessage(requestId, verification)
    \/ QueueServiceQueue
    \/ \E requestId \in RequestIds : QueueRespondService(requestId)

----------------------------------------------------------------------------
(* The queue file under concurrent commands.  The background service       *)
(* appends entries with appendToJsonl; every respond-service command is a  *)
(* process of its own that runs updateServiceQueueStatus: it reads the     *)
(* whole file, and then writes the whole file back.                       *)

MaxUpdaters == 2

Updaters == 1..MaxUpdaters

\* A respond-service command that has not started.
IdleUpdater == [pc |-> "idle", requestId |-> 0, lines |-> <<>>, updated |-> FALSE]

\* appendToJsonl: one appendFileSync of the line.
appendToJsonl(q, entry) == Append(q, entry)

\* The background service queues a request it has not queued before.
RaceAppend(requestId) ==
    /\ requestId \notin appended
    /\ appended' = appended \cup {requestId}
    /\ queueFile' = appendToJsonl(queueFile,
                        [requestId |-> requestId, status |-> "pending", error |-> ""])
    /\ UNCHANGED <<updaters, NotRace>>

\* A respond-service command starts updateServiceQueueStatus for a queued
\* request nobody answers yet: readFileSync.
RaceRead(p, requestId) ==
    /\ updaters[p].pc = "idle"
    /\ requestId \in appended
    /\ \A o \in Updaters : updaters[o].requestId # requestId
    /\ updaters' = [updaters EXCEPT ![p] =
                       [pc |-> "read", requestId |-> requestId, lines |-> queueFile,
                        updated |-> FALSE]]
    /\ UNCHANGED <<queueFile, appended, NotRace>>

\* The command maps over the lines it read and, if the request was among
\* them, writes them all back: writeFileSync.
RaceWrite(p) ==
    /\ updaters[p].pc = "read"
    /\ LET u == updateServiceQueueStatus(updaters[p].lines, updaters[p].requestId,
                                         "fulfilled", NoFields, storeNow)
       IN  /\ queueFile' = IF u.updated THEN u.queue ELSE queueFile
           /\ updaters' = [updaters EXCEPT ![p].pc = "done", ![p].updated = u.updated]
    /\ UNCHANGED <<appended, NotRace>>

RaceNext ==
    \/ \E requestId \in RequestIds : RaceAppend(requestId)
    \/ \E p \in Updaters, requestId \in RequestIds : RaceRead(p, requestId)
    \/ \E p \in Updaters : RaceWrite(p)

----------------------------------------------------------------------------
(* Payment verification.  A service request carries a payment object, or   *)
(* none; verifyAndAcceptPayment decides whether the request is paid.       *)
(* Amounts of the MNEE rail are in cents of a dollar.                      *)

\* The payment of a request as cmdRequestService builds it: a BSV payment
\* (beef, txid, satoshis), an MNEE payment (paymentType, txid), or either
\* with an error field when building it failed.  "" is an absent string
\* field, FALSE an absent beef or txid.
Payments ==
    [paymentType : {"bsv", "mnee"}, error : {"", "payment build failed"},
     beef : BOOLEAN, txid : BOOLEAN, satoshis : {3, 100}]

\* What the verification of an MNEE transaction meets: no SDK installed,
\* a transaction that does not parse, or a parsed transaction with toUs
\* outputs to the receiver that add up to totalCents.
MneeOutcomes ==
    {[kind |-> "no-sdk", toUs |-> 0, totalCents |-> 0],
     [kind |-> "parse-throws", toUs |-> 0, totalCents |-> 0],
     [kind |-> "parsed", toUs |-> 0, totalCents |-> 0],
     [kind |-> "parsed", toUs |-> 1, totalCents |-> 3],
     [kind |-> "parsed", toUs |-> 1, totalCents |-> 5]}

\* verifyMneePayment that finds every transaction valid: a faulty variant.
verifyMneePaymentAlwaysValid(outcome, expectedCents) ==
    [threw |-> FALSE, valid |-> TRUE, errors |-> <<>>]

\* verifyMneePayment: getMnee throws without the SDK; a transaction that
\* does not parse, has no output to the receiver or pays too little is not
\* valid and has an error.
verifyMneePayment(outcome, expectedCents) ==
    IF outcome.kind = "no-sdk"
    THEN [threw |-> TRUE, valid |-> FALSE, errors |-> <<"MNEE SDK not installed">>]
    ELSE IF outcome.kind = "parse-throws"
    THEN [threw |-> FALSE, valid |-> FALSE, errors |-> <<"Failed to parse MNEE tx">>]
    ELSE IF outcome.toUs = 0
    THEN [threw |-> FALSE, valid |-> FALSE, errors |-> <<"No MNEE output found for address">>]
    ELSE IF outcome.totalCents < expectedCents
    THEN [threw |-> FALSE, valid |-> FALSE, errors |-> <<"Insufficient MNEE">>]
    ELSE [threw |-> FALSE, valid |-> TRUE, errors |-> <<>>]

paymentResult(accepted, currency, error, p) ==
    [accepted |-> accepted, currency |-> currency, error |-> error,
     satoshis |-> IF p = Null THEN 0 ELSE p.satoshis]

\* verifyAndAcceptPayment(payment, minSats, ..., minUsd): walletAccepts is
\* what the wallet says to the bundle of a BSV payment.
verifyAndAcceptPayment(p, minSats, expectedCents, outcome, walletAccepts) ==
    IF p = Null THEN paymentResult(FALSE, "bsv", "no payment", p)
    ELSE IF p.error # "" THEN paymentResult(FALSE, p.paymentType, p.error, p)
    ELSE IF p.paymentType = "mnee"
    THEN IF ~p.txid THEN paymentResult(FALSE, "mnee", "missing MNEE txid", p)
         ELSE LET v == verifyMneePayment(outcome, expectedCents)
              IN  IF v.valid THEN paymentResult(TRUE, "mnee", "", p)
                  ELSE paymentResult(FALSE, "mnee", v.errors[1], p)
    ELSE IF ~p.beef THEN paymentResult(FALSE, "bsv", "missing beef", p)
    ELSE IF p.satoshis < minSats
    THEN paymentResult(FALSE, "bsv", "insufficient payment", p)
    ELSE IF ~walletAccepts
    THEN paymentResult(FALSE, "bsv", "wallet rejected payment", p)
    ELSE paymentResult(TRUE, "bsv", "", p)

\* A service request arrives with its payment, or without one.
PayReceive(p) ==
    /\ payment = NoResult
    /\ payment' = p
    /\ UNCHANGED <<payVerdict, NotPay>>

\* The payment of the request is verified against the price of the service.
PayVerify(minSats, expectedCents, outcome, walletAccepts) ==
    /\ payment # NoResult
    /\ payVerdict = NoResult
    /\ payVerdict' =
          [minSats |-> minSats, expectedCents |-> expectedCents, outcome |-> outcome,
           result |-> verifyAndAcceptPayment(payment, minSats, expectedCents, outcome,
                                             walletAccepts)]
    /\ UNCHANGED <<payment, NotPay>>

PayNext ==
    \/ \E p \in Payments \cup {Null} : PayReceive(p)
    \/ \E minSats \in {5}, expectedCents \in {5}, outcome \in MneeOutcomes,
          walletAccepts \in BOOLEAN :
             PayVerify(minSats, expectedCents, outcome, walletAccepts)

----------------------------------------------------------------------------
(* The service queue file: cleanup and status updates *)

\* The lines the file holds at most.
MaxLines == 2

\* The defaults of cleanupServiceQueue: 24 hours and 2 hours.
defaultMaxAgeMs == 24 * hourMs

defaultFinalStatusMaxAgeMs == 2 * hourMs

\* The _ts of an entry; 0 stands for an entry without _ts.
Timestamps == {0, 22 * hourMs, 24 * hourMs}

\* "processing" stands for any status that is neither pending nor final.
EntryStatuses == {"pending", "fulfilled", "processing"}

\* A line that does not parse as JSON.
MalformedLine == [malformed |-> TRUE]

\* The lines of the file: entries as they are queued, and malformed lines.
QueueLines ==
    {[malformed |-> FALSE, requestId |-> r, status |-> s, ts |-> t] :
        r \in RequestIds, s \in EntryStatuses, t \in Timestamps}
    \cup {MalformedLine}

\* const entryAge = now - (entry._ts || 0)
entryAge(entry, now) == now - entry.ts

\* The lines of the file after cleanup. A malformed line is kept, a pending
\* entry is kept while younger than maxAgeMs, an entry with a final status
\* while younger than finalStatusMaxAgeMs; everything else is removed. The
\* file is written only when something was removed.
cleanupServiceQueue(lines, now, maxAgeMs, finalStatusMaxAgeMs) ==
    LET kept(line) ==
            \/ isMalformed(line)
            \/ /\ ~isMalformed(line)
               /\ line.status = "pending"
               /\ entryAge(line, now) < maxAgeMs
            \/ /\ ~isMalformed(line)
               /\ line.status \in finalStatuses
               /\ entryAge(line, now) < finalStatusMaxAgeMs
        keptLines == SelectSeq(lines, kept)
        removedCount == Len(lines) - Len(keptLines)
    IN  [removed |-> removedCount,
         file |-> IF removedCount > 0 THEN keptLines ELSE lines]

\* A line is appended to the file.
StoreAppend(line) ==
    /\ Len(storeFile) < MaxLines
    /\ storeFile' = appendToJsonl(storeFile, line)
    /\ storeReport' = NoResult
    /\ UNCHANGED NotStore

\* cleanupServiceQueue(maxAgeMs, finalStatusMaxAgeMs)
StoreCleanup(maxAgeMs, finalStatusMaxAgeMs) ==
    LET r == cleanupServiceQueue(storeFile, storeNow, maxAgeMs,
                                 finalStatusMaxAgeMs)
    IN  /\ storeFile' = r.file
        /\ storeReport' = [op |-> "cleanup", before |-> storeFile,
                           after |-> r.file, now |-> storeNow,
                           maxAgeMs |-> maxAgeMs,
                           finalStatusMaxAgeMs |-> finalStatusMaxAgeMs]
        /\ UNCHANGED NotStore

\* The additional fields of a status update: none, or a result.
AdditionalFields == {NoFields, [result |-> "success"]}

\* updateServiceQueueStatus(requestId, newStatus, additionalFields)
StoreUpdate(requestId, newStatus, additionalFields) ==
    LET u == updateServiceQueueStatus(storeFile, requestId, newStatus,
                                      additionalFields, storeNow)
    IN  /\ storeFile' = IF u.updated THEN u.queue ELSE storeFile
        /\ storeReport' = [op |-> "update", before |-> storeFile,
                           after |-> IF u.updated THEN u.queue ELSE storeFile,
                           now |-> storeNow, requestId |-> requestId,
                           newStatus |-> newStatus,
                           additionalFields |-> additionalFields,
                           returned |-> u.updated]
        /\ UNCHANGED NotStore

StoreNext ==
    \/ \E line \in QueueLines : StoreAppend(line)
    \/ \E requestId \in RequestIds, additionalFields \in AdditionalFields :
           StoreUpdate(requestId, "fulfilled", additionalFields)
    \/ \E finalStatusMaxAgeMs \in {defaultFinalStatusMaxAgeMs, defaultMaxAgeMs} :
           StoreCleanup(defaultMaxAgeMs, finalStatusMaxAgeMs)

----------------------------------------------------------------------------
(* The service registry *)

\* The characters [a-z0-9] of the ids tried.
IdChars == {"a", "b", "1"}

\* The ids tried, as sequences of characters: empty, blank, kebab-case
\* ("a", "a-b") and not ("a-", "-a", "A", "a--b").
ServiceIdInputs ==
    {<<>>, <<" ">>, <<"a">>, <<"a", "-", "b">>, <<"a", "-">>, <<"-", "a">>,
     <<"A">>, <<"a", "-", "-", "b">>}

\* /^[a-z0-9]+(-[a-z0-9]+)*$/.test(id)
isKebabCase(id) ==
    /\ Len(id) > 0
    /\ \A i \in 1..Len(id) : id[i] \in IdChars \cup {"-"}
    /\ id[1] # "-"
    /\ id[Len(id)] # "-"
    /\ \A i \in 1..(Len(id) - 1) : ~(id[i] = "-" /\ id[i + 1] = "-")

\* id.trim().length === 0
isBlank(id) == \A i \in 1..Len(id) : id[i] = " "

\* Object.values(ServiceCategory)
ServiceCategory ==
    {"utility", "ai", "blockchain", "communication", "development",
     "research", "entertainment", "custom"}

\* Service definitions without a defect. category "" stands for no
\* category; handler is "none" or "noProcess" (a handler without process).
WellFormedServices ==
    [id : {<<"a">>, <<"a", "-", "b">>}, name : {"Joke"},
     description : {"Tells a joke"}, defaultPrice : {10},
     category : {"", "utility"}, handler : {"none"}]

\* The service definitions tried: the ones without a defect, and each of
\* them with one field replaced.
ServiceDefinitions ==
    WellFormedServices
    \cup {[s EXCEPT !.id = i] : s \in WellFormedServices, i \in ServiceIdInputs}
    \cup {[s EXCEPT !.name = ""] : s \in WellFormedServices}
    \cup {[s EXCEPT !.description = ""] : s \in WellFormedServices}
    \cup {[s EXCEPT !.defaultPrice = -1] : s \in WellFormedServices}
    \cup {[s EXCEPT !.category = "bogus"] : s \in WellFormedServices}
    \cup {[s EXCEPT !.handler = "noProcess"] : s \in WellFormedServices}

\* validateServiceDefinition: the message of the error it throws, "" if none.
validateServiceDefinition(service) ==
    IF service.id = <<>> THEN "Service ID is required"
    ELSE IF isBlank(service.id) THEN "Service ID must be a non-empty string"
    ELSE IF ~isKebabCase(service.id)
        THEN "Service ID must be in kebab-case format (lowercase, hyphens only)"
    ELSE IF service.name = ""
        THEN "Service name is required and must be a non-empty string"
    ELSE IF service.description = ""
        THEN "Service description is required and must be a non-empty string"
    ELSE IF service.defaultPrice < 0
        THEN "Service defaultPrice must be a non-negative integer"
    ELSE IF service.category # "" /\ service.category \notin ServiceCategory
        THEN "Invalid service category"
    ELSE IF service.handler = "noProcess"
        THEN "Service handler must have a process function"
    ELSE ""

\* this.services.set(key, value)
MapSet(map, key, value) ==
    [k \in DOMAIN map \cup {key} |-> IF k = key THEN value ELSE map[k]]

\* this.services.delete(key)
MapDelete(map, key) == [k \in DOMAIN map \ {key} |-> map[k]]

\* register without the check for duplicates: a faulty variant.
registerOverwriting(map, service) ==
    LET invalid == validateServiceDefinition(service)
    IN  IF invalid # "" THEN [error |-> invalid, services |-> map]
        ELSE [error |-> "", services |-> MapSet(map, service.id, service)]

\* register(service): validation first, then the check for duplicates, then
\* the map gets a copy of the service. error is the message thrown, "" if
\* none.
register(map, service) ==
    LET invalid == validateServiceDefinition(service)
    IN  IF invalid # "" THEN [error |-> invalid, services |-> map]
        ELSE IF service.id \in DOMAIN map
            THEN [error |-> "Service is already registered", services |-> map]
        ELSE [error |-> "", services |-> MapSet(map, service.id, service)]

\* unregister(serviceId)
unregister(map, serviceId) == MapDelete(map, serviceId)

\* clear()
clear(map) == <<>>

\* list()
list(map) == {map[k] : k \in DOMAIN map}

\* serviceRegistry.register(service)
RegistryRegister(service) ==
    LET r == register(registryMap, service)
    IN  /\ registryMap' = r.services
        /\ registryReport' = [op |-> "register", service |-> service,
                              error |-> r.error, before |-> registryMap]
        /\ UNCHANGED NotRegistry

\* serviceRegistry.unregister(serviceId)
RegistryUnregister(serviceId) ==
    /\ registryMap' = unregister(registryMap, serviceId)
    /\ registryReport' = [op |-> "unregister", service |-> serviceId,
                          error |-> "", before |-> registryMap]
    /\ UNCHANGED NotRegistry

\* serviceRegistry.clear()
RegistryClear ==
    /\ registryMap' = clear(registryMap)
    /\ registryReport' = [op |-> "clear", service |-> <<>>,
                          error |-> "", before |-> registryMap]
    /\ UNCHANGED NotRegistry

RegistryNext ==
    \/ \E service \in ServiceDefinitions : RegistryRegister(service)
    \/ \E serviceId \in ServiceIdInputs : RegistryUnregister(serviceId)
    \/ RegistryClear

----------------------------------------------------------------------------
(* Specifications *)

\* Every specification starts with no command run and nothing assembled.
Init ==
    /\ beef = [parses |-> TRUE, txs |-> <<>>]
    /\ ancestry = NoResult
    /\ script = PushDropScript(<<>>)
    /\ defects = 0
    /\ parsed = NoResult
    /\ bundle = [parses |-> TRUE, txs |-> <<>>]
    /\ admitted = NoResult
    /\ discovery = NoResult
    /\ registration = Null
    /\ savedServices = <<>>
    /\ txCount = 0
    /\ submitted = <<>>
    /\ report = NoResult
    /\ rootKey = 0
    /\ derived = {}
    /\ importPc = "idle"
    /\ importArgs = Null
    /\ elapsed = 0
    /\ attempt = 0
    /\ answers = <<>>
    /\ slept = <<>>
    /\ pollOutcome = "none"
    /\ txInfo = Null
    /\ atomicBeef = Null
    /\ handed = <<>>
    /\ imported = FALSE
    /\ importResult = NoResult
    /\ buffer = Null
    /\ decoded = NoResult
    /\ fromBinaryCalls = 0
    /\ serviceQueue = <<>>
    /\ relayOutbox = <<>>
    /\ processed = NoResult
    /\ responded = NoResult
    /\ queueReport = NoResult
    /\ queueOps = 0
    /\ queueFile = <<>>
    /\ appended = {}
    /\ updaters = [p \in Updaters |-> IdleUpdater]
    /\ payment = NoResult
    /\ payVerdict = NoResult
    /\ storeFile = <<>>
    /\ storeReport = NoResult
    /\ registryMap = <<>>
    /\ registryReport = NoResult

SpecBeef == Init /\ [][BeefNext]_vars

SpecPayload == Init /\ [][PayloadNext]_vars

SpecAdmit == Init /\ [][AdmitNext]_vars

SpecDiscover == Init /\ [][DiscoverNext]_vars

SpecSubmit == Init /\ [][SubmitNext]_vars

SpecKeys == Init /\ [][KeysNext]_vars

SpecImport == Init /\ [][ImportNext]_vars

\* The polling loop alone: an await ends, the query by its timeout and the
\* sleep by its timer, and the function goes on.
SpecPoll == Init /\ [][PollNext]_vars /\ WF_vars(PollNext)

SpecRegistry == Init /\ [][RegistryNext]_vars

SpecStore == Init /\ [][StoreNext]_vars

SpecPay == Init /\ [][PayNext]_vars

SpecRace == Init /\ [][RaceNext]_vars

SpecQueue == Init /\ [][QueueNext]_vars

SpecDecode == Init /\ [][DecodeNext]_vars

----------------------------------------------------------------------------
(* C10 *)

TxOf(txs, id) == CHOOSE t \in {txs[i] : i \in 1..Len(txs)} : t.txid = id

\* A transaction is grounded when it carries a proof, or each of its inputs
\* spends a transaction of the bundle that is grounded; n bounds the depth.
RECURSIVE Grounded(_, _, _)
Grounded(txs, id, n) ==
    /\ id \in TxidsOf(txs)
    /\ LET t == TxOf(txs, id)
       IN /\ ~t.txidOnly
          /\ \/ t.hasProof
             \/ /\ n > 0
                /\ \A src \in t.inputs : Grounded(txs, src, n - 1)

----------------------------------------------------------------------------
(* C6 *)

DocOf(s) == s.fields[1]

\* The rules every payload type shares: the script is a token with a first
\* field, its JSON parses to an object, the protocol tag is the fixed tag,
\* the type is the expected discriminator, identityKey is 66 hex characters.
CommonRules(s, type) ==
    /\ s.shape = "pushdrop" /\ s.fields # <<>>
    /\ DocOf(s).json \notin {"throws", "null"}
    /\ DocOf(s).protocol = JStr(PROTOCOL_ID)
    /\ DocOf(s).type = JStr(type)
    /\ DocOf(s).identityKey.t = "string"
    /\ StrLen(DocOf(s).identityKey.s) = 66 /\ IsHexStr(DocOf(s).identityKey.s)

\* The string fields of each payload type that are not optional.
RequiredStrings(type) ==
    CASE type = "identity" -> {"name", "description", "timestamp"}
      [] type = "identity-revocation" -> {"timestamp"}
      [] type = "service" -> {"serviceId", "name", "description", "model", "timestamp"}

\* The string fields the parsers require to be non-empty.
NonEmptyStrings(type) ==
    CASE type = "identity" -> {"name"}
      [] type = "identity-revocation" -> {}
      [] type = "service" -> {"serviceId", "name"}

ArrayFields(type) == IF type = "identity" THEN {"capabilities"} ELSE {}

\* pricing must be an object whose amountSats is a number.
NumericRule(s, type) ==
    type = "service" => (DocOf(s).pricing.t = "object" /\ DocOf(s).amountSats.t = "number")

ParsedAs(type) ==
    CASE type = "identity" -> parsed.identity
      [] type = "identity-revocation" -> parsed.revocation
      [] type = "service" -> parsed.service

PayloadTypes == {"identity", "identity-revocation", "service"}

----------------------------------------------------------------------------
(* C5 *)

\* The payload types a topic admits.
TopicTypes(topic) ==
    IF topic = "tm_clawdbot_identity" THEN {"identity", "identity-revocation"}
    ELSE {"service"}

\* The script is a token whose first field is a payload of the type that
\* passes the parser of that type.
ParsesAs(s, type) ==
    CASE type = "identity" -> parseIdentityOutput(s) # Null
      [] type = "identity-revocation" -> parseRevocationOutput(s) # Null
      [] type = "service" -> parseServiceOutput(s) # Null

\* C5: outputsToAdmit is exactly the output indices of the subject (first)
\* transaction whose script decodes and whose payload parses for a payload
\* type of the topic, strictly ascending, no index twice; coinsToRetain is
\* empty.
C5_AdmitsExactlyParsingOutputsAscending ==
    (admitted # NoResult /\ ~admitted.result.threw) =>
        LET out == admitted.result.outputsToAdmit
            subject == IF bundle.txs = <<>> \/ bundle.txs[1].txidOnly THEN <<>>
                       ELSE bundle.txs[1].outputs
        IN /\ \A j \in 1..Len(out) : \A k \in 1..Len(out) : j < k => out[j] < out[k]
           /\ {out[j] : j \in 1..Len(out)} =
                 {i \in 0..(Len(subject) - 1) :
                     \E type \in TopicTypes(admitted.topic) : ParsesAs(subject[i + 1], type)}
           /\ admitted.result.coinsToRetain = <<>>

\* The service topic admitted both outputs, 0 then 1, of the subject.
C5_Witness ==
    /\ admitted # NoResult
    /\ admitted.topic = "tm_clawdbot_services"
    /\ admitted.result.outputsToAdmit = <<0, 1>>

----------------------------------------------------------------------------
(* C7 *)

\* The script of the output a lookup entry names, as the validator sees it.
LookupScript(o) ==
    IF ~o.beef.parses \/ o.beef.txs = <<>> THEN OtherScript("none")
    ELSE LET tx == o.beef.txs[Len(o.beef.txs)]
         IN IF o.outputIndex + 1 > Len(tx.outputs) THEN OtherScript("none")
            ELSE tx.outputs[o.outputIndex + 1]

\* C7: discover returns an output as an identity (service) record exactly
\* when the validator's parse accepts that output as an Identity (ServiceAd)
\* payload; no output the validator rejects is returned.
C7_DiscoverAgreesWithValidator ==
    discovery # NoResult =>
        /\ \A k \in 1..Len(discovery.agents) :
              parseIdentityOutput(LookupScript(discovery.agents[k].from)) # Null
        /\ \A k \in 1..Len(discovery.services) :
              parseServiceOutput(LookupScript(discovery.services[k].from)) # Null
        /\ (discovery.filter # "--service" /\ discovery.agentResult.hasOutputs) =>
              \A j \in 1..Len(discovery.agentResult.outputs) :
                 parseIdentityOutput(LookupScript(discovery.agentResult.outputs[j])) # Null
                    => \E k \in 1..Len(discovery.agents) :
                          discovery.agents[k].from = discovery.agentResult.outputs[j]
        /\ (discovery.filter # "--agent" /\ discovery.serviceResult.hasOutputs) =>
              \A j \in 1..Len(discovery.serviceResult.outputs) :
                 parseServiceOutput(LookupScript(discovery.serviceResult.outputs[j])) # Null
                    => \E k \in 1..Len(discovery.services) :
                          discovery.services[k].from = discovery.serviceResult.outputs[j]

\* discover returned an agent whose payload carries a wrong protocol tag.
C7_Witness ==
    /\ discovery # NoResult
    /\ \E k \in 1..Len(discovery.agents) :
          discovery.agents[k].data.protocol = JStr("wrong")

----------------------------------------------------------------------------
(* C8 *)

\* The last command was register or advertise and the submission it is
\* about (the identity for register, the service for advertise) came back
\* with HTTP success and no admitted output.
ZeroAdmittedOnSuccess ==
    /\ report # NoResult
    /\ report.cmd \in {"register", "advertise"}
    /\ Len(submitted) >= 1
    /\ submitted[1].ok
    /\ submitted[1].admitted = 0

\* The transaction of the last command's first submission is recorded as
\* published: as the registration's identity, or as a saved service.
RecordedAsPublished ==
    \/ /\ report.cmd = "register"
       /\ registration # Null
       /\ registration.identityTxid = submitted[1].txid
    \/ /\ report.cmd = "advertise"
       /\ \E i \in 1..Len(savedServices) : savedServices[i].txid = submitted[1].txid

\* C8: a submission answered with HTTP success and zero admitted outputs is
\* a failure: the command does not report success and does not record the
\* registration or the service as published.
C8_ZeroAdmittedIsFailure ==
    ZeroAdmittedOnSuccess => (~report.success /\ ~RecordedAsPublished)

\* register was answered HTTP success with nothing admitted.
C8_Witness ==
    /\ ZeroAdmittedOnSuccess
    /\ report.cmd = "register"

----------------------------------------------------------------------------
(* C9 *)

\* C9: every address derived from the root key, for receiving or for
\* sending funds, differs from the address of the root key itself.
C9_DerivedAddressDiffersFromRoot ==
    \A d \in derived :
        d.address # toAddress(toPublicKey(RootPrivateKey(rootKey)))

\* Both a payment key and the MNEE sender key have been derived.
C9_Witness ==
    /\ \E d \in derived : d.fn = "deriveWifAndAddress"
    /\ \E d \in derived : d.fn = "derivePrivateKey"

----------------------------------------------------------------------------
(* C1 *)

\* The bundle has the transaction with its body, and the body has the output.
ContainsTargetOutput(b, txid, vout) ==
    \E i \in findTxid(b, txid) : ~b.txs[i].txidOnly /\ vout < b.txs[i].outputs

\* C1: every bundle import hands to the wallet has passed ancestry
\* validation, and the indexer's bundle is handed over only if its ancestry
\* validates and it contains the target output.
C1_HandedBundlesPassAncestry ==
    \A i \in 1..Len(handed) :
        /\ validateBeefAncestry(handed[i].beef).valid
        /\ handed[i].via = "woc" =>
              ContainsTargetOutput(handed[i].beef, importArgs.txid, importArgs.vout)

\* The wallet was handed the indexer's bundle.
C1_Witness ==
    /\ handed # <<>>
    /\ handed[1].via = "woc"

----------------------------------------------------------------------------
(* C2 *)

NotFoundAnswers == {i \in 1..Len(answers) : answers[i] = 404}

----------------------------------------------------------------------------
(* C3 *)

\* The delay of the i-th sleep of the schedule, and the time the first n
\* sleeps take.
BackoffSchedule(i) == Min((backoffBaseMs * (3 ^ i)) \div (2 ^ i), backoffCapMs)

RECURSIVE SumSchedule(_)
SumSchedule(n) == IF n = 0 THEN 0 ELSE SumSchedule(n - 1) + BackoffSchedule(n)

\* The number of sleeps after which the budget is used up even if every
\* query is answered at once: no query is sent after that many.
QueryBound ==
    CHOOSE n \in 1..(maxWaitMs \div backoffBaseMs) :
        /\ SumSchedule(n) >= maxWaitMs
        /\ \A m \in 1..(n - 1) : SumSchedule(m) < maxWaitMs

PollingOver == importPc \notin {"idle", "query", "sleep"}

\* The loop has ended in exactly the way the answers say.
PollOutcomeMatches ==
    /\ pollOutcome = "Found" <=> (answers # <<>> /\ answers[Len(answers)] = 200)
    /\ pollOutcome = "Failed" <=>
          (answers # <<>> /\ answers[Len(answers)] \notin {200, 404})
    /\ pollOutcome = "TimedOut" <=>
          (answers # <<>> /\ importPc = "done" /\ answers[Len(answers)] = 404)
    /\ pollOutcome = "TimedOut" => elapsed >= maxWaitMs
    /\ pollOutcome = "none" <=> (answers = <<>> \/ importPc \in {"query", "sleep"})
    /\ pollOutcome \in {"none", "Found", "Failed", "TimedOut"}

\* C3: polling terminates for every sequence of answers; the number of
\* queries stays within the bound the budget and the delays give, and the
\* loop ends as Found, as an immediate failure or as TimedOut.
C3_PollingTerminates ==
    /\ [](Len(answers) <= QueryBound /\ PollOutcomeMatches)
    /\ <>PollingOver

\* The budget ran out after as many queries as the bound allows.
C3_Witness ==
    /\ pollOutcome = "TimedOut"
    /\ Len(answers) = QueryBound

----------------------------------------------------------------------------
(* C4 *)

----------------------------------------------------------------------------
(* C11 *)

\* C11: a bundle that decodes to zero transactions is rejected by ancestry
\* validation.
C11_EmptyBundleRejected ==
    (ancestry # NoResult /\ beef.parses /\ beef.txs = <<>>) => ~ancestry.valid

\* The empty bundle has been validated.
C11_Witness ==
    /\ ancestry # NoResult
    /\ beef.parses
    /\ beef.txs = <<>>
----------------------------------------------------------------------------
(* C12 *)

\* The buffer has 4 bytes or fewer, or does not start with a recognized
\* marker.
ShortOrWrongMagic ==
    \/ buffer.length <= 4
    \/ buffer.magic \notin {BEEF_V1, BEEF_V2}

\* C12: decoding a buffer of 4 bytes or fewer, or one with a wrong marker,
\* returns a failure with a reason, and the buffer is rejected before the
\* parser is called.
C12_ShortOrWrongMagicRejectedEarly ==
    (decoded # NoResult /\ ShortOrWrongMagic) =>
        /\ ~decoded.valid
        /\ decoded.error # ""
        /\ fromBinaryCalls = 0

\* A buffer that is the marker alone has been validated.
C12_Witness ==
    /\ decoded # NoResult
    /\ buffer.length = 4
    /\ buffer.magic = BEEF_V2
----------------------------------------------------------------------------
(* C13 *)

\* C13: the admission check never throws; for bytes that are no bundle it
\* answers with an empty admission set.
C13_AdmissionNeverThrows ==
    admitted # NoResult =>
        /\ ~admitted.result.threw
        /\ ~bundle.parses => admitted.result = EmptyAdmittance

\* A topic manager was handed bytes that are no bundle.
C13_Witness ==
    /\ admitted # NoResult
    /\ ~bundle.parses
----------------------------------------------------------------------------
(* C14 *)

\* The output indices of entry p of the bundle whose scripts parse for a
\* payload type of the topic.
AdmissibleAt(p, topic) ==
    IF p > Len(bundle.txs) \/ bundle.txs[p].txidOnly THEN {}
    ELSE {i \in 0..(Len(bundle.txs[p].outputs) - 1) :
             \E type \in TopicTypes(topic) : ParsesAs(bundle.txs[p].outputs[i + 1], type)}

\* C14: admission looks only at the subject, the newest and first
\* transaction of the bundle: on either topic the admitted indices are
\* exactly the admissible outputs of the first entry, whatever the outputs
\* of its ancestors are, so no output of an ancestor is ever admitted.
C14_OnlySubjectAdmitted ==
    (admitted # NoResult /\ bundle.parses) =>
        LET out == admitted.result.outputsToAdmit
        IN /\ {out[j] : j \in 1..Len(out)} = AdmissibleAt(1, admitted.topic)
           /\ Len(out) = Cardinality(AdmissibleAt(1, admitted.topic))

\* The chain of the test: the child carries a service advertisement and a
\* change output, its parent an identity record, the grandparent is a
\* source transaction; the ancestry validates and the service topic admits
\* output 0 of the child only.
C14_Witness ==
    /\ admitted # NoResult
    /\ admitted.topic = "tm_clawdbot_services"
    /\ Len(bundle.txs) = 3
    /\ bundle.txs[1].outputs = <<PushDropScript(<<ServiceDoc>>), OtherScript("p2pkh")>>
    /\ bundle.txs[2].outputs = <<PushDropScript(<<IdentityDoc>>)>>
    /\ bundle.txs[3].inputs = {}
    /\ validateBeefAncestry(bundle).valid
    /\ admitted.result.outputsToAdmit = <<0>>
----------------------------------------------------------------------------
(* C15 *)

\* The outputs of the subject transaction the topic managers looked at.
SubjectOutputs ==
    IF bundle.txs = <<>> \/ bundle.txs[1].txidOnly THEN <<>> ELSE bundle.txs[1].outputs

\* The script is a token whose first field is the given document.
Carries(s, doc) == s.shape = "pushdrop" /\ Len(s.fields) >= 1 /\ s.fields[1] = doc

\* The script is a token whose first field has the protocol tag and one of
\* the given types.
TaggedAs(s, types) ==
    /\ s.shape = "pushdrop"
    /\ Len(s.fields) >= 1
    /\ s.fields[1].protocol = JStr(PROTOCOL_ID)
    /\ \E type \in types : s.fields[1].type = JStr(type)

\* C15: on the identity topic every output of the subject that carries a
\* valid identity or a valid revocation with the protocol tag is admitted,
\* and whatever is admitted carries the tag and one of these two types; on
\* the service topic every valid service advertisement is admitted and
\* whatever is admitted carries the tag and the type service, never an
\* identity or a revocation.
C15_TopicsAdmitTheirTypes ==
    (admitted # NoResult /\ ~admitted.result.threw) =>
        LET out == admitted.result.outputsToAdmit
            idx == {out[j] : j \in 1..Len(out)}
        IN /\ \A k \in 1..Len(SubjectOutputs) :
                IF admitted.topic = "tm_clawdbot_identity"
                THEN /\ (Carries(SubjectOutputs[k], IdentityDoc)
                            \/ Carries(SubjectOutputs[k], RevocationDoc))
                        => (k - 1) \in idx
                     /\ (k - 1) \in idx =>
                            TaggedAs(SubjectOutputs[k], {"identity", "identity-revocation"})
                ELSE /\ Carries(SubjectOutputs[k], ServiceDoc) => (k - 1) \in idx
                     /\ (k - 1) \in idx => TaggedAs(SubjectOutputs[k], {"service"})
           /\ idx \subseteq 0..(Len(SubjectOutputs) - 1)

\* The identity topic admitted an identity at output 0 and a revocation at
\* output 1 and left the service advertisement at output 2 out.
C15_Witness ==
    /\ admitted # NoResult
    /\ admitted.topic = "tm_clawdbot_identity"
    /\ SubjectOutputs = <<PushDropScript(<<IdentityDoc>>), PushDropScript(<<RevocationDoc>>),
                          PushDropScript(<<ServiceDoc>>)>>
    /\ admitted.result.outputsToAdmit = <<0, 1>>
----------------------------------------------------------------------------
(* C16 *)

\* The command has just failed because the transaction is unconfirmed and
\* no bundle could be had for it.
FailsAsUnconfirmed ==
    /\ importResult = NoResult
    /\ importResult' # NoResult
    /\ importResult'.error = "Transaction is unconfirmed and BEEF is not available"

\* C16: for an unconfirmed transaction the import fails with the reason
\* 'unconfirmed and no bundle available' only after the indexer's bundle
\* and then the manual fallback (raw transaction and proof) were tried: the
\* failing step is a step of the manual fallback.
C16_UnconfirmedFailsOnlyAfterFallback ==
    [][FailsAsUnconfirmed => importPc \in {"rawtx", "proof"}]_vars

\* The import of an unconfirmed transaction has failed with that reason and
\* nothing was handed to the wallet.
C16_Witness ==
    /\ importPc = "done"
    /\ txInfo # Null
    /\ txInfo.confirmations = 0
    /\ importResult.error = "Transaction is unconfirmed and BEEF is not available"
    /\ handed = <<>>
    /\ ~imported

\* The statement of C16 as the code has it: an unconfirmed transaction for
\* which the indexer's bundle gave nothing fails with that reason in the
\* very step that tried the indexer's bundle, is never passed on to the
\* manual fallback, fails with no other error than a missing output, and
\* nothing is handed to the wallet.
C16_UnconfirmedFailsAfterIndexerBundle ==
    [][/\ FailsAsUnconfirmed =>
            /\ importPc = "beef"
            /\ txInfo.confirmations = 0
            /\ importPc' = "done"
            /\ atomicBeef' = Null
            /\ handed' = <<>>
            /\ ~imported'
       /\ (importPc = "beef" /\ txInfo.confirmations = 0 /\ importPc' # "internalize") =>
            /\ importPc' = "done"
            /\ \/ FailsAsUnconfirmed
               \/ importResult'.error = "Output index not found in BEEF transaction"]_vars
----------------------------------------------------------------------------
(* C17 *)

\* The state of the reconciler's state machine the command is in.  Found:
\* the indexer knows the transaction and its bundle is being asked for.
\* ProofAcquisition: the raw transaction and the proof are being fetched.
\* Proven: a bundle with the proof attached is ready for the wallet.
\* ChainAssembly: the indexer's bundle is ready for the wallet.  Ready: the
\* wallet was handed a bundle.
Phase ==
    CASE importPc = "idle" -> "Idle"
      [] importPc \in {"query", "sleep"} -> "Polling"
      [] importPc = "beef" -> "Found"
      [] importPc \in {"rawtx", "proof"} -> "ProofAcquisition"
      [] importPc = "internalize" ->
            IF atomicBeef.via = "manual" THEN "Proven" ELSE "ChainAssembly"
      [] OTHER -> IF handed # <<>> THEN "Ready"
                  ELSE IF pollOutcome = "TimedOut" THEN "TimedOut" ELSE "Failed"

\* C17 as stated: the wallet import is reached only through Found, and
\* whenever the indexer reports the transaction as confirmed the bundle
\* handed to the wallet is the one built from a requested merkle proof.
C17_ConfirmedIsProvenBeforeReady ==
    Phase = "Ready" =>
        /\ pollOutcome = "Found"
        /\ txInfo.confirmations >= 1 => handed[1].via = "manual"

\* The changes of state of the command.  A failure ends it from any state
\* but Proven and ChainAssembly.
PhaseSteps ==
    {<<"Idle", "Polling">>, <<"Idle", "Failed">>,
     <<"Polling", "Found">>, <<"Polling", "TimedOut">>, <<"Polling", "Failed">>,
     <<"Found", "ChainAssembly">>, <<"Found", "ProofAcquisition">>, <<"Found", "Failed">>,
     <<"ProofAcquisition", "Proven">>, <<"ProofAcquisition", "Failed">>,
     <<"Proven", "Ready">>, <<"ChainAssembly", "Ready">>}

\* C17 as the code has it: every execution is a path Polling -> Found ->
\* {Proven | ChainAssembly} -> Ready, or Polling -> TimedOut, or ends in a
\* failure; Ready is reached only through Found, with the bundle that was
\* prepared; the indexer's bundle, when it has the transaction, is taken as
\* it is, confirmed or not; only without it, and only for a confirmed
\* transaction, is a merkle proof requested and attached (Proven).
C17_ImportFollowsStateMachine ==
    [][/\ Phase' # Phase => <<Phase, Phase'>> \in PhaseSteps
       /\ Phase' = "Ready" =>
            /\ pollOutcome' = "Found"
            /\ handed' = <<atomicBeef>>
       /\ Phase' = "ChainAssembly" =>
            /\ atomicBeef'.via = "woc"
            /\ findTxid(atomicBeef'.beef, importArgs.txid) # {}
       /\ Phase' = "ProofAcquisition" =>
            /\ txInfo.confirmations >= 1
            /\ atomicBeef' = Null
       /\ (Phase' = "Proven" /\ Phase # "Proven") =>
            /\ importPc = "proof"
            /\ txInfo.confirmations >= 1
            /\ atomicBeef'.beef.txs[1].txid = importArgs.txid
            /\ atomicBeef'.beef.txs[1].hasProof]_vars

\* The wallet accepted the bundle built from the requested proof of a
\* confirmed transaction.
C17_Witness ==
    /\ Phase = "Ready"
    /\ txInfo.confirmations >= 1
    /\ handed[1].via = "manual"
    /\ handed[1].beef.txs[1].hasProof
    /\ imported
----------------------------------------------------------------------------
(* C18 *)

\* The status of the entry of the request before the step, "" without one.
StatusBefore(requestId) ==
    IF existingEntry(serviceQueue, requestId) = Null THEN ""
    ELSE existingEntry(serviceQueue, requestId).status

\* C18: whatever messages arrive, the queue holds at most one entry per
\* request id: processing again a message whose request is pending returns
\* already-queued, and one whose request is fulfilled already-fulfilled,
\* and neither adds an entry.
C18_OneEntryPerRequest ==
    [][/\ \A requestId \in RequestIds :
             Cardinality(entriesOf(serviceQueue', requestId)) <= 1
       /\ processed' # processed =>
            LET requestId == processed'.result.requestId
            IN  /\ StatusBefore(requestId) = "pending" =>
                      /\ processed'.result.action = "already-queued"
                      /\ serviceQueue' = serviceQueue
                /\ StatusBefore(requestId) = "fulfilled" =>
                      /\ processed'.result.action = "already-fulfilled"
                      /\ serviceQueue' = serviceQueue]_vars

\* A request was queued, answered, and its message processed once more: the
\* queue still has its one entry.
C18_Witness ==
    /\ processed # NoResult
    /\ processed.result.action = "already-fulfilled"
    /\ relayOutbox = <<processed.result.requestId>>
    /\ Len(serviceQueue) = 1
    /\ serviceQueue[1].status = "fulfilled"

----------------------------------------------------------------------------
(* C19 *)

\* The number of responses sent for the request.
SentFor(outbox, requestId) ==
    Cardinality({i \in 1..Len(outbox) : outbox[i] = requestId})

\* C19: a response is sent at most once per request id: answering a
\* request whose entry has a final status returns sent = false,
\* alreadyProcessed = true and the status found, sends nothing and leaves
\* the queue as it was.
C19_ResponseSentAtMostOnce ==
    [][/\ \A requestId \in RequestIds : SentFor(relayOutbox', requestId) <= 1
       /\ (responded' # responded
             /\ StatusBefore(responded'.data.requestId) \in finalStatuses) =>
            /\ ~responded'.data.sent
            /\ responded'.data.alreadyProcessed
            /\ responded'.data.previousStatus = StatusBefore(responded'.data.requestId)
            /\ relayOutbox' = relayOutbox
            /\ serviceQueue' = serviceQueue]_vars

\* A second answer to a fulfilled request was refused: one response is out.
C19_Witness ==
    /\ responded # NoResult
    /\ responded.data.alreadyProcessed
    /\ responded.data.previousStatus = "fulfilled"
    /\ relayOutbox = <<responded.data.requestId>>

----------------------------------------------------------------------------
(* C20 *)

\* C20: a request whose payment verification fails is never pending: the
\* message is reported as rejected, its entry has the status rejected and
\* the error of the verification, and no list of pending requests has it.
C20_RefusedPaymentNeverPending ==
    [][/\ (processed' # processed /\ processed'.result.verified
             /\ ~processed'.result.paymentAccepted) =>
            /\ processed'.result.action = "rejected"
            /\ serviceQueue' =
                  Append(serviceQueue,
                         [requestId |-> processed'.result.requestId,
                          status |-> "rejected",
                          error |-> "insufficient payment: 10 < 50"])
       /\ \A i \in 1..Len(serviceQueue') :
             serviceQueue'[i].error # "" => serviceQueue'[i].status = "rejected"
       /\ queueReport' # NoResult =>
             \A i \in 1..Len(queueReport'.pending) :
                /\ queueReport'.pending[i].error = ""
                /\ queueReport'.pending[i].status = "pending"]_vars

\* A payment was refused and the agent, asking for its pending requests,
\* got none although the queue has the entry.
C20_Witness ==
    /\ processed # NoResult
    /\ processed.result.action = "rejected"
    /\ queueReport # NoResult
    /\ queueReport.count = 0
    /\ queueReport.total = 1
    /\ serviceQueue[1].status = "rejected"
----------------------------------------------------------------------------
(* C21 *)

\* C21: updates of the queue are atomic: whatever the interleaving of
\* appends and status updates, every queued request has exactly one entry,
\* and once the commands that answer have finished, the requests they
\* answered are fulfilled, none of them pending.
C21_NoEntryAndNoStatusLost ==
    /\ \A requestId \in appended : Cardinality(entriesOf(queueFile, requestId)) = 1
    /\ \A p \in Updaters :
          (updaters[p].pc = "done" /\ updaters[p].updated
              /\ \A o \in Updaters : updaters[o].pc # "read") =>
             \A i \in entriesOf(queueFile, updaters[p].requestId) :
                queueFile[i].status = "fulfilled"

\* Two requests were queued and two commands have each answered one.
C21_Witness ==
    /\ Cardinality(appended) = 2
    /\ \A p \in Updaters : updaters[p].pc = "done" /\ updaters[p].updated
    /\ updaters[1].requestId # updaters[2].requestId
----------------------------------------------------------------------------
(* C22 *)

\* The MNEE transaction pays the receiver at least the price.
MneeVerifies(outcome, expectedCents) ==
    outcome.kind = "parsed" /\ outcome.toUs > 0 /\ outcome.totalCents >= expectedCents

\* C22: a payment is accepted only if it is there, has no error field and
\* either has a bundle and at least the satoshis asked (BSV) or has a
\* transaction id that verifies (MNEE); every other payment gets
\* accepted = false with a non-empty error, and the error a payment carries
\* is the error of the result.
C22_PaymentAcceptedOnlyIfSound ==
    payVerdict # NoResult =>
        /\ payVerdict.result.accepted =>
              /\ payment # Null
              /\ payment.error = ""
              /\ IF payment.paymentType = "mnee"
                 THEN payment.txid /\ MneeVerifies(payVerdict.outcome,
                                                   payVerdict.expectedCents)
                 ELSE payment.beef /\ payment.satoshis >= payVerdict.minSats
        /\ ~payVerdict.result.accepted => payVerdict.result.error # ""
        /\ (payment # Null /\ payment.error # "") =>
              /\ ~payVerdict.result.accepted
              /\ payVerdict.result.error = payment.error

\* An MNEE payment with a transaction id that verifies was accepted.
C22_Witness ==
    /\ payVerdict # NoResult
    /\ payment # Null
    /\ payment.paymentType = "mnee"
    /\ payment.txid
    /\ MneeVerifies(payVerdict.outcome, payVerdict.expectedCents)
    /\ payVerdict.result.accepted
----------------------------------------------------------------------------
(* C23 *)

\* The keys derived for payments.
PaymentKeys == {d \in derived : d.fn = "derivePrivateKey"}

\* C23: under one root key, two different (prefix, suffix) pairs give
\* different path material and different derived addresses.
C23_DistinctPathsDistinctAddresses ==
    \A d1 \in PaymentKeys : \A d2 \in PaymentKeys :
        d1.path # d2.path =>
            /\ d1.keyString # d2.keyString
            /\ d1.address # d2.address

\* Keys were derived for (import, now) and for (importn, ow), whose plain
\* concatenations are the same string.
C23_Witness ==
    /\ \E d \in PaymentKeys : d.path = <<"import", "now">>
    /\ \E d \in PaymentKeys : d.path = <<"importn", "ow">>
----------------------------------------------------------------------------
(* C24 *)

\* The lines of a file, as a set.
LinesOf(file) == {file[i] : i \in 1..Len(file)}

\* The last operation on the file was a cleanup.
CleanupRan == storeReport # NoResult /\ storeReport.op = "cleanup"

\* The cleanup left the line in the file.
KeptByCleanup(line) == line \in LinesOf(storeReport.after)

\* C24: cleanupServiceQueue removes an entry only if it is at least
\* maxAgeMs old, or has a final status and is at least finalStatusMaxAgeMs
\* old; a pending entry younger than maxAgeMs and an entry with a final
\* status younger than finalStatusMaxAgeMs are kept; a malformed line is
\* never removed.
C24_CleanupRemovesOnlyOldEntries ==
    CleanupRan =>
        \A line \in LinesOf(storeReport.before) :
            /\ ~KeptByCleanup(line) =>
                   /\ ~isMalformed(line)
                   /\ \/ entryAge(line, storeReport.now) >= storeReport.maxAgeMs
                      \/ /\ line.status \in finalStatuses
                         /\ entryAge(line, storeReport.now)
                                >= storeReport.finalStatusMaxAgeMs
            /\ (/\ ~isMalformed(line)
                /\ line.status = "pending"
                /\ entryAge(line, storeReport.now) < storeReport.maxAgeMs)
                   => KeptByCleanup(line)
            /\ (/\ ~isMalformed(line)
                /\ line.status \in finalStatuses
                /\ entryAge(line, storeReport.now)
                       < storeReport.finalStatusMaxAgeMs)
                   => KeptByCleanup(line)
            /\ isMalformed(line) => KeptByCleanup(line)

\* A cleanup has run on a file that held an entry one hour old whose status
\* is neither pending nor final.
C24_Witness ==
    /\ CleanupRan
    /\ \E line \in LinesOf(storeReport.before) :
           /\ ~isMalformed(line)
           /\ line.status = "processing"
           /\ entryAge(line, storeReport.now) = hourMs

----------------------------------------------------------------------------
(* C25 *)

\* The last operation on the file was a status update.
UpdateRan == storeReport # NoResult /\ storeReport.op = "update"

\* The line is a parsed entry of the request the update names.
NamedByUpdate(line) ==
    ~isMalformed(line) /\ line.requestId = storeReport.requestId

\* C25: updateServiceQueueStatus returns true exactly when the file holds an
\* entry with the request id. Then each such entry keeps its own fields and
\* has the new status, the additional fields and updatedAt, and every other
\* line is as it was. When it returns false the file is as it was.
C25_UpdateTouchesOnlyTheRequest ==
    UpdateRan =>
        LET before == storeReport.before
            after == storeReport.after
        IN  /\ storeReport.returned
                   <=> \E line \in LinesOf(before) : NamedByUpdate(line)
            /\ Len(after) = Len(before)
            /\ \A i \in 1..Len(before) :
                   IF NamedByUpdate(before[i])
                   THEN /\ after[i].status = storeReport.newStatus
                        /\ after[i].updatedAt = storeReport.now
                        /\ \A k \in DOMAIN storeReport.additionalFields :
                               after[i][k] = storeReport.additionalFields[k]
                        /\ \A k \in DOMAIN before[i] \ {"status", "updatedAt"} :
                               k \notin DOMAIN storeReport.additionalFields
                                   => after[i][k] = before[i][k]
                   ELSE after[i] = before[i]
            /\ ~storeReport.returned => after = before
            /\ storeFile = after

\* A status update with a result has run on a file of two lines, the first
\* an entry of the request and the second not.
C25_Witness ==
    /\ UpdateRan
    /\ storeReport.returned
    /\ storeReport.additionalFields # NoFields
    /\ Len(storeReport.before) = 2
    /\ NamedByUpdate(storeReport.before[1])
    /\ ~NamedByUpdate(storeReport.before[2])

\* A status update has returned false on a file with a line in it.
C25_WitnessNotFound ==
    /\ UpdateRan
    /\ ~storeReport.returned
    /\ Len(storeReport.before) > 0
----------------------------------------------------------------------------
(* C26 *)

\* The registry holds one service per id, each under its own id, and only
\* services that pass validation.
RegistrySound ==
    /\ \A k \in DOMAIN registryMap :
           /\ registryMap[k].id = k
           /\ validateServiceDefinition(registryMap[k]) = ""
    /\ \A s1 \in list(registryMap) : \A s2 \in list(registryMap) :
           s1.id = s2.id => s1 = s2

\* The last operation was the registration of a service whose id was present.
RegisteredPresentId ==
    /\ registryReport # NoResult
    /\ registryReport.op = "register"
    /\ registryReport.service.id \in DOMAIN registryReport.before

\* C26 as claimed: the registry is sound, and registering an id that is
\* present throws 'already registered' and leaves the registry unchanged.
C26_PresentIdAlwaysAlreadyRegistered ==
    /\ RegistrySound
    /\ RegisteredPresentId =>
           /\ registryReport.error = "Service is already registered"
           /\ registryMap = registryReport.before

\* C26: the registry is sound; registering an id that is present throws and
\* leaves the registry unchanged, and what it throws is 'already registered'
\* when the service itself passes validation.
C26_PresentIdThrowsAndKeepsRegistry ==
    /\ RegistrySound
    /\ RegisteredPresentId =>
           /\ registryReport.error # ""
           /\ registryMap = registryReport.before
           /\ validateServiceDefinition(registryReport.service) = ""
                  => registryReport.error = "Service is already registered"

\* A valid service was registered under an id the registry held, with
\* another service registered beside it.
C26_Witness ==
    /\ RegisteredPresentId
    /\ validateServiceDefinition(registryReport.service) = ""
    /\ registryReport.service # registryReport.before[registryReport.service.id]
    /\ Cardinality(DOMAIN registryMap) = 2
----------------------------------------------------------------------------
(* C27 *)

\* The schedule 1 s, 1.5 s, 2.25 s, ..., each 1.5 times the one before and
\* none above 10 s, in whole milliseconds.
ClaimedSchedule(n) ==
    Min((backoffBaseMs * (3 ^ (n - 1))) \div (2 ^ (n - 1)), backoffCapMs)

\* C27: the delay slept before the n-th polling retry is the n-th of 1 s,
\* 1.5 s, 2.25 s, ... and is never more than 10 s.
C27_DelaysStartAtOneSecond ==
    \A n \in 1..Len(slept) :
        /\ slept[n] = ClaimedSchedule(n)
        /\ slept[n] <= backoffCapMs

\* The indexer answered 404 and the loop slept before its first retry.
C27_Witness ==
    /\ Len(slept) >= 1
    /\ Len(answers) >= 1
    /\ answers[1] = 404
----------------------------------------------------------------------------
(* C28 *)

\* The bundle of a submission: the transaction of createAction with the
\* command's outputs, and the transaction that funds it.
BundleOf(s) ==
    [parses |-> TRUE,
     txs |-> <<[txid |-> 1, inputs |-> {2}, hasProof |-> FALSE,
                txidOnly |-> FALSE, outputs |-> s.outputs],
               [txid |-> 2, inputs |-> {}, hasProof |-> TRUE,
                txidOnly |-> FALSE, outputs |-> <<OtherScript("p2pkh")>>]>>]

\* What the admission simulator admits of a submission for its topic.
SimulatedAdmittance(s) ==
    IF s.topic = IDENTITY_TOPIC
    THEN identifyIdentityOutputs(BundleOf(s))
    ELSE identifyServiceOutputs(BundleOf(s))

\* The last command was one that publishes a payload.
PublishedPayload ==
    /\ report # NoResult
    /\ report.cmd \in {"register", "advertise", "readvertise"}
    /\ submitted # <<>>

\* C28: the data output of every submission of register, advertise and
\* readvertise carries the protocol tag PayloadValidator requires and is
\* admitted by the admission simulator for the topic it was sent to.
C28_BuiltPayloadsAreAdmitted ==
    PublishedPayload =>
        \A i \in 1..Len(submitted) :
            /\ submitted[i].outputs[1].fields[1].protocol = JStr(PROTOCOL_ID)
            /\ SimulatedAdmittance(submitted[i]).outputsToAdmit # <<>>

\* register has submitted its identity payload.
C28_Witness ==
    /\ PublishedPayload
    /\ report.cmd = "register"
    /\ submitted[1].topic = IDENTITY_TOPIC
    /\ submitted[1].outputs # <<>>
----------------------------------------------------------------------------
(* C29 *)

\* The command of the step sent a submission and the overlay's answer to
\* the first one (the identity's, for register) was a success.
FirstSubmissionOk == submitted' # <<>> /\ submitted'[1].ok

\* The command of the step sent a submission and the first one failed.
FirstSubmissionFailed == submitted' # <<>> /\ ~submitted'[1].ok

====
